---- MODULE Spec2Model ----
(***************************************************************************)
(* Credit ledger of convex/sessions.ts: the session (account) table, the   *)
(* append-only creditLedger table, and the four internal mutations that    *)
(* change them: reserveCreditsInternal, releaseReservationInternal,        *)
(* deductCreditsInternal and addCreditsInternal.                           *)
(*                                                                         *)
(* A Convex mutation runs as one serializable transaction, so every        *)
(* mutation is one atomic action and concurrent requests are the           *)
(* interleavings of these actions.                                         *)
(*                                                                         *)
(* Optional values (v.optional(...), fields that may be undefined) are     *)
(* sets: {} is "absent", {x} is "present with value x".                    *)
(* USD amounts are counted in tenths of a dollar; credits are integers.    *)
(***************************************************************************)
EXTENDS Integers, Sequences, FiniteSets, TLC

\* ------------------------------------------------------------------ bounds
MaxCalls == 3
MaxAmount == 2
MaxNow == 4

\* ------------------------------------------------------- program constants
\* DEFAULT_DAILY_SPEND_LIMIT_USD = 5.0, in tenths of a dollar
DEFAULT_DAILY_SPEND_LIMIT_USD == 50

\* ------------------------------------------------------------ input sets
SIDS == {"s1"}
GENERATION_IDS == {"g1", "g2"}
RACE_IDS == {"g1", "g2", "g3"}
Amounts == 1..MaxAmount
ActualAmounts == 1..(MaxAmount + 1)
CostInputs == {{}, {30}}
InitialCredits == {2, 3}

VARIABLES
  sessions,      \* "sessions" table: sid -> session document
  creditLedger,  \* "creditLedger" table, in insertion order
  now,           \* Date.now(), counted in half days since the epoch
  ncalls,        \* number of mutations run so far
  last,          \* the last mutation run: its arguments, its result and the
                 \* tables as they were before it ran
  chat,          \* one request to a metered route: the locals of its
                 \* handler and the state of its streams
  adminAuditLog  \* "adminAuditLog" table, in insertion order

vars == <<sessions, creditLedger, now, ncalls, last, chat, adminAuditLog>>

\* ---------------------------------------------------------------- helpers
\* x ?? d
Opt(x, d) == IF x = {} THEN d ELSE CHOOSE v \in x : TRUE

Max(a, b) == IF a > b THEN a ELSE b

Abs(a) == IF a < 0 THEN -a ELSE a

RECURSIVE SumSeq(_, _)
\* entries.reduce((sum, e) => sum + f(e), 0) for the values f[i]
SumSeq(s, i) == IF i > Len(s) THEN 0 ELSE s[i] + SumSeq(s, i + 1)

\* The result object of a mutation; a field that the mutation does not set
\* is absent ({}) or false.
NoResult ==
  [success |-> FALSE, error |-> "", newBalance |-> {},
   alreadyReserved |-> FALSE, alreadyReleased |-> FALSE,
   alreadyCharged |-> FALSE, converted |-> FALSE,
   refunded |-> {}, additionalCharged |-> {}, shortfall |-> {},
   required |-> {}, available |-> {},
   dailyLimit |-> {}, dailySpent |-> {}, remaining |-> {}]

\* ------------------------------------------------------- pure functions
resolveTier(currentTier) == IF currentTier = "admin" THEN "admin" ELSE "paid"

\* date.setUTCHours(0, 0, 0, 0): the timestamp of the midnight that starts
\* the UTC day of a timestamp. A day has two ticks of the clock here.
getUtcDayStart(timestamp) == timestamp - (timestamp % 2)

\* A variant without the bypass of the admin tier.
bypassesDailyLimit_Never(session) == FALSE

\* if (session.tier === "admin"): admin bypasses the daily spend limit
bypassesDailyLimit(session) == session.tier = "admin"

\* A variant that reports what would remain after the rejected request.
checkDailySpendLimit_RemainingAfter(session, costUsd, today) ==
  IF bypassesDailyLimit(session)
  THEN [allowed |-> TRUE, currentSpend |-> 0, limit |-> {},
        resetNeeded |-> FALSE, remaining |-> {}]
  ELSE
    LET todayStart == getUtcDayStart(today)
        lastReset == Opt(session.lastDayReset, 0)
        resetNeeded == lastReset < todayStart
        currentSpend == IF resetNeeded THEN 0 ELSE Opt(session.dailySpendUsd, 0)
        limit == Opt(session.dailySpendLimitUsd, DEFAULT_DAILY_SPEND_LIMIT_USD)
        newSpend == currentSpend + costUsd
    IN IF newSpend > limit
       THEN [allowed |-> FALSE, currentSpend |-> currentSpend,
             limit |-> {limit}, resetNeeded |-> resetNeeded,
             remaining |-> {Max(0, limit - newSpend)}]
       ELSE [allowed |-> TRUE, currentSpend |-> currentSpend,
             limit |-> {limit}, resetNeeded |-> resetNeeded,
             remaining |-> {}]

\* checkDailySpendLimit(session, costUsd); Date.now() is the parameter today.
checkDailySpendLimit(session, costUsd, today) ==
  IF bypassesDailyLimit(session)
  THEN [allowed |-> TRUE, currentSpend |-> 0, limit |-> {},
        resetNeeded |-> FALSE, remaining |-> {}]
  ELSE
    LET todayStart == getUtcDayStart(today)
        lastReset == Opt(session.lastDayReset, 0)
        resetNeeded == lastReset < todayStart
        currentSpend == IF resetNeeded THEN 0 ELSE Opt(session.dailySpendUsd, 0)
        limit == Opt(session.dailySpendLimitUsd, DEFAULT_DAILY_SPEND_LIMIT_USD)
        newSpend == currentSpend + costUsd
    IN IF newSpend > limit
       THEN [allowed |-> FALSE, currentSpend |-> currentSpend,
             limit |-> {limit}, resetNeeded |-> resetNeeded,
             remaining |-> {Max(0, limit - currentSpend)}]
       ELSE [allowed |-> TRUE, currentSpend |-> currentSpend,
             limit |-> {limit}, resetNeeded |-> resetNeeded,
             remaining |-> {}]

\* The numbers that are not finite, each written as an integer no amount
\* of the model comes near: Infinity above every amount, -Infinity below,
\* and NaN, which compares false with everything.
Infinity == 1000
NegInfinity == 0 - 1000
NaN == 999
isFinite(amount) == amount \notin {Infinity, NegInfinity, NaN}

\* amount <= 0 in the arithmetic of doubles
notPositive(amount) == amount # NaN /\ amount <= 0

\* A variant that lets an amount of 0 through.
validatePositiveAmount_AllowsZero(amount) ==
  ~((amount # NaN /\ amount < 0) \/ ~isFinite(amount))

\* A variant that also throws on an amount of 1.
validatePositiveAmount_AboveOne(amount) ==
  ~((amount # NaN /\ amount <= 1) \/ ~isFinite(amount))

\* if (amount <= 0 || !Number.isFinite(amount)) throw; TRUE when it does
\* not throw.
validatePositiveAmount(amount) == ~(notPositive(amount) \/ ~isFinite(amount))

\* A variant whose lookup leaves the account out of the index range.
ledgerEntriesFor_AnyAccount(ledger, generationId, sid) ==
  SelectSeq(ledger, LAMBDA e : e.generationId = {generationId})

\* ctx.db.query("creditLedger").withIndex("by_generationId",
\*   q => q.eq("generationId", generationId).eq("sid", sid)).collect()
ledgerEntriesFor(ledger, generationId, sid) ==
  SelectSeq(ledger, LAMBDA e : e.generationId = {generationId} /\ e.sid = sid)

\* Sum of the deltas of the generation, refund and reservation entries.
netDelta(ledgerEntries) ==
  SumSeq([i \in 1..Len(ledgerEntries) |->
            IF ledgerEntries[i].reason \in {"generation", "refund", "reservation"}
            THEN ledgerEntries[i].delta ELSE 0], 1)

reservationEntries(ledgerEntries) ==
  SelectSeq(ledgerEntries, LAMBDA e : e.reason = "reservation")

\* reservationEntries.reduce((sum, e) => sum + Math.abs(e.delta), 0)
reservedAmountOf(ledgerEntries) ==
  LET r == reservationEntries(ledgerEntries)
  IN SumSeq([i \in 1..Len(r) |-> Abs(r[i].delta)], 1)

\* reservationEntries.reduce((sum, e) => sum + (e.costUsd ?? 0), 0)
reservationCostUsdOf(ledgerEntries) ==
  LET r == reservationEntries(ledgerEntries)
  IN SumSeq([i \in 1..Len(r) |-> Opt(r[i].costUsd, 0)], 1)

hasReservation(ledgerEntries) ==
  \E i \in 1..Len(ledgerEntries) : ledgerEntries[i].reason = "reservation"

hasGeneration(ledgerEntries) ==
  \E i \in 1..Len(ledgerEntries) : ledgerEntries[i].reason = "generation"

\* A creditLedger document (modelId and createdAt are never read back).
LedgerEntry(sid, delta, reason, generationId, costUsd) ==
  [sid |-> sid, delta |-> delta, reason |-> reason,
   generationId |-> generationId, costUsd |-> costUsd]

\* ------------------------------------------------- reserveCreditsInternal
\* const pendingReservations = ledgerEntries.filter(reservation)
\*   .reduce((sum, e) => sum + Math.abs(e.delta), 0)
pendingReservations(ledgerEntries) == reservedAmountOf(ledgerEntries)

availableCredits(session, ledgerEntries) ==
  session.credits - pendingReservations(ledgerEntries)

\* Mutation: the check forgets the amount asked for.
reserveInsufficient_IgnoresAmount(session, ledgerEntries, amount) ==
  availableCredits(session, ledgerEntries) < 0

\* if (availableCredits < args.amount) -> "Insufficient credits"
reserveInsufficient(session, ledgerEntries, amount) ==
  availableCredits(session, ledgerEntries) < amount

\* The mutation: the tables after it and the object it returns.
\* A variant that adds the cost to the spend of the earlier day.
newDailySpendOf_KeepsOldSpend(session, spendCheck, costUsd) ==
  Opt(session.dailySpendUsd, 0) + costUsd

\* const newDailySpend = spendCheck.resetNeeded
\*   ? costUsd : (session.dailySpendUsd ?? 0) + costUsd;
newDailySpendOf(session, spendCheck, costUsd) ==
  IF spendCheck.resetNeeded THEN costUsd
  ELSE Opt(session.dailySpendUsd, 0) + costUsd

\* A variant that opens the new daily window before it rejects.
dailyLimitRejection_ResetsWindow(tSessions, tLedger, args, spendCheck, today) ==
  [sessions |->
     IF spendCheck.resetNeeded
     THEN [tSessions EXCEPT ![args.sid].dailySpendUsd = {0},
                            ![args.sid].lastDayReset = {getUtcDayStart(today)}]
     ELSE tSessions,
   ledger |-> tLedger,
   res |-> [NoResult EXCEPT !.error = "Daily spending limit exceeded",
                            !.dailyLimit = spendCheck.limit,
                            !.dailySpent = {spendCheck.currentSpend},
                            !.remaining = spendCheck.remaining]]

\* if (!spendCheck.allowed) return { success: false, ... }: nothing is
\* written before the return.
dailyLimitRejection(tSessions, tLedger, args, spendCheck, today) ==
  [sessions |-> tSessions, ledger |-> tLedger,
   res |-> [NoResult EXCEPT !.error = "Daily spending limit exceeded",
                            !.dailyLimit = spendCheck.limit,
                            !.dailySpent = {spendCheck.currentSpend},
                            !.remaining = spendCheck.remaining]]

reserveCreditsInternal(tSessions, tLedger, args, today) ==
  IF args.sid \notin DOMAIN tSessions
  THEN [sessions |-> tSessions, ledger |-> tLedger,
        res |-> [NoResult EXCEPT !.error = "Session not found"]]
  ELSE
    LET session == tSessions[args.sid]
        costUsd == Opt(args.costUsd, 0)
        spendCheck == checkDailySpendLimit(session, costUsd, today)
        ledgerEntries == ledgerEntriesFor(tLedger, args.generationId, args.sid)
    IN
    IF ~spendCheck.allowed
    THEN dailyLimitRejection(tSessions, tLedger, args, spendCheck, today)
    ELSE IF netDelta(ledgerEntries) < 0
    THEN [sessions |-> tSessions, ledger |-> tLedger,
          res |-> [NoResult EXCEPT !.success = TRUE,
                                   !.newBalance = {session.credits},
                                   !.alreadyReserved = TRUE]]
    ELSE IF reserveInsufficient(session, ledgerEntries, args.amount)
    THEN [sessions |-> tSessions, ledger |-> tLedger,
          res |-> [NoResult EXCEPT !.error = "Insufficient credits",
                                   !.required = {args.amount},
                                   !.available =
                                      {availableCredits(session, ledgerEntries)}]]
    ELSE
      LET newCredits == session.credits - args.amount
          nextTier == resolveTier(session.tier)
          todayStart == getUtcDayStart(today)
          newDailySpend == newDailySpendOf(session, spendCheck, costUsd)
      IN [sessions |->
            [tSessions EXCEPT ![args.sid] =
               [session EXCEPT !.credits = newCredits,
                               !.tier = nextTier,
                               !.dailySpendUsd = {newDailySpend},
                               !.lastDayReset =
                                  IF spendCheck.resetNeeded THEN {todayStart}
                                  ELSE session.lastDayReset]],
          ledger |-> Append(tLedger,
                       LedgerEntry(args.sid, -args.amount, "reservation",
                                   {args.generationId}, args.costUsd)),
          res |-> [NoResult EXCEPT !.success = TRUE,
                                   !.newBalance = {newCredits}]]

\* --------------------------------------------- releaseReservationInternal
\* A variant that finds no reservation to release.
nothingToRelease_Always(ledgerEntries) == TRUE

\* if (reservationEntries.length === 0) -> alreadyReleased
nothingToRelease(ledgerEntries) == Len(reservationEntries(ledgerEntries)) = 0

\* A variant that leaves the balance as it is.
creditsAfterRelease_Unchanged(session, reservedAmount) == session.credits

\* const newCredits = session.credits + reservedAmount
creditsAfterRelease(session, reservedAmount) == session.credits + reservedAmount

releaseReservationInternal(tSessions, tLedger, args) ==
  IF args.sid \notin DOMAIN tSessions
  THEN [sessions |-> tSessions, ledger |-> tLedger,
        res |-> [NoResult EXCEPT !.error = "Session not found"]]
  ELSE
    LET session == tSessions[args.sid]
        ledgerEntries == ledgerEntriesFor(tLedger, args.generationId, args.sid)
    IN
    IF nothingToRelease(ledgerEntries)
    THEN [sessions |-> tSessions, ledger |-> tLedger,
          res |-> [NoResult EXCEPT !.success = TRUE,
                                   !.newBalance = {session.credits},
                                   !.alreadyReleased = TRUE]]
    ELSE
      LET reservedAmount == reservedAmountOf(ledgerEntries)
          reservationCostUsd == reservationCostUsdOf(ledgerEntries)
          newCredits == creditsAfterRelease(session, reservedAmount)
          nextTier == resolveTier(session.tier)
          currentDailySpend == Opt(session.dailySpendUsd, 0)
          newDailySpend == Max(0, currentDailySpend - reservationCostUsd)
      IN [sessions |->
            [tSessions EXCEPT ![args.sid] =
               [session EXCEPT !.credits = newCredits,
                               !.tier = nextTier,
                               !.dailySpendUsd = {newDailySpend}]],
          ledger |-> Append(tLedger,
                       LedgerEntry(args.sid, reservedAmount, "refund",
                                   {args.generationId}, {})),
          res |-> [NoResult EXCEPT !.success = TRUE,
                                   !.newBalance = {newCredits}]]

\* -------------------------------------------------- deductCreditsInternal
\* if (hasReservation && !hasGeneration): the reservation is converted
needsConversion(ledgerEntries) ==
  hasReservation(ledgerEntries) /\ ~hasGeneration(ledgerEntries)

\* Mutation: the additional amount is always charged.
cannotAffordAdditional_Never(session, additionalNeeded) == FALSE

\* if (session.credits < additionalNeeded): charge only what was reserved
cannotAffordAdditional(session, additionalNeeded) ==
  session.credits < additionalNeeded

\* Mutation: the direct debit only asks for a balance that is not negative.
directDebitInsufficient_NoFloor(session, chargeAmount) == session.credits < 0

\* Mutation: the direct debit also turns away a balance equal to the charge.
directDebitInsufficient_Strict(session, chargeAmount) ==
  session.credits <= chargeAmount

\* if (session.credits < chargeAmount) on the direct-debit path
directDebitInsufficient(session, chargeAmount) ==
  session.credits < chargeAmount

\* The conversion of an unconverted reservation (the body of
\* "if (hasReservation && !hasGeneration)").
convertReservation(tSessions, tLedger, args, ledgerEntries, chargeAmount, chargeCostUsd) ==
  LET session == tSessions[args.sid]
      reservedAmount == reservedAmountOf(ledgerEntries)
      reservationCostUsd == reservationCostUsdOf(ledgerEntries)
      difference == reservedAmount - chargeAmount
      actualCostUsd == Opt(chargeCostUsd, 0)
      currentDailySpend == Opt(session.dailySpendUsd, 0)
      generation(delta, cost) ==
        LedgerEntry(args.sid, delta, "generation", {args.generationId}, cost)
      refund == LedgerEntry(args.sid, reservedAmount, "refund",
                            {args.generationId}, {})
  IN
  IF difference > 0
  THEN
    LET newCredits == session.credits + difference
        costUsdDifference == reservationCostUsd - actualCostUsd
        newDailySpend == Max(0, currentDailySpend - costUsdDifference)
    IN [sessions |->
          [tSessions EXCEPT ![args.sid] =
             [session EXCEPT !.credits = newCredits,
                             !.dailySpendUsd = {newDailySpend}]],
        ledger |-> tLedger \o
                   <<generation(-chargeAmount, chargeCostUsd), refund>>,
        res |-> [NoResult EXCEPT !.success = TRUE,
                                 !.newBalance = {newCredits},
                                 !.converted = TRUE,
                                 !.refunded = {difference}]]
  ELSE IF difference < 0
  THEN
    LET additionalNeeded == Abs(difference) IN
    IF cannotAffordAdditional(session, additionalNeeded)
    THEN [sessions |-> tSessions,
          ledger |-> tLedger \o
                     <<generation(-reservedAmount, {reservationCostUsd}), refund>>,
          res |-> [NoResult EXCEPT !.success = TRUE,
                                   !.newBalance = {session.credits},
                                   !.converted = TRUE,
                                   !.shortfall = {additionalNeeded}]]
    ELSE
      LET newCredits == session.credits - additionalNeeded
          additionalCostUsd == actualCostUsd - reservationCostUsd
          newDailySpend == currentDailySpend + Max(0, additionalCostUsd)
      IN [sessions |->
            [tSessions EXCEPT ![args.sid] =
               [session EXCEPT !.credits = newCredits,
                               !.dailySpendUsd = {newDailySpend}]],
          ledger |-> tLedger \o
                     <<generation(-chargeAmount, chargeCostUsd), refund>>,
          res |-> [NoResult EXCEPT !.success = TRUE,
                                   !.newBalance = {newCredits},
                                   !.converted = TRUE,
                                   !.additionalCharged = {additionalNeeded}]]
  ELSE
    LET costUsdDifference == reservationCostUsd - actualCostUsd
        newDailySpend == Max(0, currentDailySpend - costUsdDifference)
    IN [sessions |->
          IF costUsdDifference # 0
          THEN [tSessions EXCEPT ![args.sid] =
                  [session EXCEPT !.dailySpendUsd = {newDailySpend}]]
          ELSE tSessions,
        ledger |-> tLedger \o
                   <<generation(-chargeAmount, chargeCostUsd), refund>>,
        res |-> [NoResult EXCEPT !.success = TRUE,
                                 !.newBalance = {session.credits},
                                 !.converted = TRUE]]

deductCreditsInternal(tSessions, tLedger, args) ==
  IF args.sid \notin DOMAIN tSessions
  THEN [sessions |-> tSessions, ledger |-> tLedger,
        res |-> [NoResult EXCEPT !.error = "Session not found"]]
  ELSE
    LET session == tSessions[args.sid]
        ledgerEntries == ledgerEntriesFor(tLedger, args.generationId, args.sid)
        chargeAmount == Opt(args.actualAmount, args.amount)
        chargeCostUsd == IF args.actualCostUsd # {} THEN args.actualCostUsd
                         ELSE args.costUsd
    IN
    IF netDelta(ledgerEntries) < 0
    THEN
      IF needsConversion(ledgerEntries)
      THEN convertReservation(tSessions, tLedger, args, ledgerEntries,
                              chargeAmount, chargeCostUsd)
      ELSE [sessions |-> tSessions, ledger |-> tLedger,
            res |-> [NoResult EXCEPT !.success = TRUE,
                                     !.newBalance = {session.credits},
                                     !.alreadyCharged = TRUE]]
    ELSE IF directDebitInsufficient(session, chargeAmount)
    THEN [sessions |-> tSessions, ledger |-> tLedger,
          res |-> [NoResult EXCEPT !.error = "Insufficient credits",
                                   !.required = {chargeAmount},
                                   !.available = {session.credits}]]
    ELSE
      LET newCredits == session.credits - chargeAmount
          nextTier == resolveTier(session.tier)
      IN [sessions |->
            [tSessions EXCEPT ![args.sid] =
               [session EXCEPT !.credits = newCredits, !.tier = nextTier]],
          ledger |-> Append(tLedger,
                       LedgerEntry(args.sid, -chargeAmount, "generation",
                                   {args.generationId}, chargeCostUsd)),
          res |-> [NoResult EXCEPT !.success = TRUE,
                                   !.newBalance = {newCredits}]]

\* ----------------------------------------------------- addCreditsInternal
\* A thrown Error is a result with success = FALSE and the message in error;
\* a returned { newBalance } is a result with success = TRUE.
addCreditsInternal(tSessions, tLedger, args) ==
  IF ~validatePositiveAmount(args.amount)
  THEN [sessions |-> tSessions, ledger |-> tLedger,
        res |-> [NoResult EXCEPT !.error = "Amount must be a positive number"]]
  ELSE IF args.sid \notin DOMAIN tSessions
  THEN [sessions |-> tSessions, ledger |-> tLedger,
        res |-> [NoResult EXCEPT !.error = "Session not found"]]
  ELSE
    LET session == tSessions[args.sid]
        newCredits == session.credits + args.amount
        nextTier == resolveTier(session.tier)
    IN [sessions |->
          [tSessions EXCEPT ![args.sid] =
             [session EXCEPT !.credits = newCredits, !.tier = nextTier]],
        ledger |-> Append(tLedger,
                     LedgerEntry(args.sid, args.amount, args.reason, {}, {})),
        res |-> [NoResult EXCEPT !.success = TRUE,
                                 !.newBalance = {newCredits}]]

\* ------------------------------------------------------------ the system
\* Arguments of a mutation call; an argument the mutation does not take is
\* absent.
NoArgs ==
  [sid |-> "", generationId |-> "", amount |-> 0, costUsd |-> {},
   actualAmount |-> {}, actualCostUsd |-> {}, reason |-> ""]

\* (amount, actualAmount) pairs passed to deductCredits: the chat route passes
\* the reserved amount alone, the image route passes both.
SettleAmountInputs ==
  {<<a, {}>> : a \in Amounts} \cup {<<MaxAmount, {b}>> : b \in ActualAmounts}

\* (costUsd, actualCostUsd) pairs passed to deductCredits
SettleCostInputs == {<<{}, {}>>, <<{30}, {10}>>}

GrantAmounts == {1}

\* A session as createSession inserts it, funded by one addCredits call.
FundedSession(credits) ==
  [tier |-> "paid", credits |-> credits, dailySpendUsd |-> {},
   dailySpendLimitUsd |-> {}, lastDayReset |-> {}]

\* No chat request has been made: the locals of the handler as they are
\* declared (generationId = null, creditReserved = false, creditSettlement =
\* null) and no stream.
NoChat ==
  [route |-> "none", pc |-> "start", creditReserved |-> FALSE,
   creditSettlement |-> "null", settling |-> "idle", mode |-> "none",
   first |-> "none", triggers |-> 0, upstream |-> "idle", chunks |-> 0,
   flush |-> "idle", pump |-> "idle", output |-> "none",
   deductCalls |-> 0, deductFailed |-> FALSE, releaseCalls |-> 0,
   releaseFailed |-> FALSE, balanceBefore |-> 0]

Init ==
  /\ chat = NoChat
  /\ adminAuditLog = <<>>
  /\ \E c \in InitialCredits :
       /\ sessions = [sid \in SIDS |-> FundedSession(c)]
       /\ creditLedger = <<LedgerEntry("s1", c, "purchase", {}, {})>>
  /\ now = 2
  /\ ncalls = 0
  /\ last = [op |-> "none", args |-> NoArgs, res |-> NoResult,
             before |-> [sessions |-> sessions, nledger |-> 0, now |-> 2]]

\* One mutation call: the tables take the values the mutation computes and
\* the call is recorded in last.
Apply(op, args, out) ==
  /\ sessions' = out.sessions
  /\ creditLedger' = out.ledger
  /\ ncalls' = ncalls + 1
  /\ last' = [op |-> op, args |-> args, res |-> out.res,
              before |-> [sessions |-> sessions,
                          nledger |-> Len(creditLedger), now |-> now]]
  /\ UNCHANGED <<now, adminAuditLog>>

\* A mutation called from outside the chat route.
Call(op, args, out) == Apply(op, args, out) /\ UNCHANGED chat

\* reserveCredits called with a generationId of G
ReserveOn(G) ==
  \E sid \in SIDS, g \in G, amount \in Amounts, c \in CostInputs :
    LET args == [NoArgs EXCEPT !.sid = sid, !.generationId = g,
                               !.amount = amount, !.costUsd = c]
    IN Call("reserve", args,
            reserveCreditsInternal(sessions, creditLedger, args, now))

\* releaseReservation called with a generationId of G
ReleaseOn(G) ==
  \E sid \in SIDS, g \in G :
    LET args == [NoArgs EXCEPT !.sid = sid, !.generationId = g]
    IN Call("release", args,
            releaseReservationInternal(sessions, creditLedger, args))

\* deductCredits called with a generationId of G
SettleOn(G) ==
  \E sid \in SIDS, g \in G, a \in SettleAmountInputs, c \in SettleCostInputs :
    LET args == [NoArgs EXCEPT !.sid = sid, !.generationId = g,
                               !.amount = a[1], !.actualAmount = a[2],
                               !.costUsd = c[1], !.actualCostUsd = c[2]]
    IN Call("settle", args,
            deductCreditsInternal(sessions, creditLedger, args))

\* addCredits
GrantAny ==
  \E sid \in SIDS, amount \in GrantAmounts :
    LET args == [NoArgs EXCEPT !.sid = sid, !.amount = amount,
                               !.reason = "purchase"]
    IN Call("grant", args,
            addCreditsInternal(sessions, creditLedger, args))

\* Half a day passes; every second tick crosses UTC midnight. The session
\* was created at the start of day 1 (now = 2); the clock stops at MaxNow.
Tick ==
  /\ now < MaxNow
  /\ now' = now + 1
  /\ UNCHANGED <<sessions, creditLedger, ncalls, last, chat, adminAuditLog>>

\* Spec: any sequence of up to MaxCalls calls on one account, over two
\* generationIds.
Reserve == ncalls < MaxCalls /\ ReserveOn(GENERATION_IDS)
Release == ncalls < MaxCalls /\ ReleaseOn(GENERATION_IDS)
Settle == ncalls < MaxCalls /\ SettleOn(GENERATION_IDS)
Grant == ncalls < MaxCalls /\ GrantAny

Next == Reserve \/ Release \/ Settle \/ Grant \/ Tick

Spec == Init /\ [][Next]_vars

\* SpecOneId: two calls more, all on the same generationId.
ReserveOneId == ncalls < MaxCalls + 2 /\ ReserveOn({"g1"})
ReleaseOneId == ncalls < MaxCalls + 2 /\ ReleaseOn({"g1"})
SettleOneId == ncalls < MaxCalls + 2 /\ SettleOn({"g1"})
GrantOneId == ncalls < MaxCalls + 2 /\ GrantAny

NextOneId ==
  ReserveOneId \/ ReleaseOneId \/ SettleOneId \/ GrantOneId \/ Tick

SpecOneId == Init /\ [][NextOneId]_vars

\* SpecRace: concurrent requests on one account that only reserve, each
\* mutation being one transaction.
ReserveRace == ncalls < MaxCalls + 2 /\ ReserveOn(RACE_IDS)

NextRace == ReserveRace \/ Tick

SpecRace == Init /\ [][NextRace]_vars

\* ---------------------------------------------------------------- typing
TypeOK ==
  /\ DOMAIN sessions = SIDS
  /\ \A sid \in SIDS : sessions[sid].tier \in {"paid", "admin"}
  /\ ncalls \in 0..(MaxCalls + 2)
  /\ now \in 2..MaxNow

\* ------------------------------------------------- reading the last call
\* The account the last call was made on, after and before the call.
Cur == sessions[last.args.sid]
Pre == last.before.sessions[last.args.sid]

\* The ledger before the last call, and what the call appended.
PreLedger == SubSeq(creditLedger, 1, last.before.nledger)
Appended == SubSeq(creditLedger, last.before.nledger + 1, Len(creditLedger))

\* The entries of the last call's generationId before the call.
PreEntries ==
  ledgerEntriesFor(PreLedger, last.args.generationId, last.args.sid)

\* The call changed neither the account nor the ledger.
NoOp == sessions = last.before.sessions /\ Appended = <<>>

Reasons(entries) == [i \in 1..Len(entries) |-> entries[i].reason]

\* chargeAmount of the last deductCredits call
Charge == Opt(last.args.actualAmount, last.args.amount)

\* The reservation of the generationId was converted by a settle: its
\* entries are reservation, generation, refund.
Converted(entries) == Reasons(entries) = <<"reservation", "generation", "refund">>

\* The reservation of the generationId was refunded by a release: its
\* entries are reservation, refund.
Released(entries) == Reasons(entries) = <<"reservation", "refund">>

\* The reservation of the generationId is outstanding: its only entry is the
\* reservation.
Outstanding(entries) == Reasons(entries) = <<"reservation">>

\* ------------------------------------------------------------------ C1
\* C1: after every reserve, settle, release and grant call, in any order and
\* on any mix of generationIds, the balance of the account is >= 0.
C1_NoNegativeBalance ==
  \A sid \in DOMAIN sessions : sessions[sid].credits >= 0

\* After an earlier charge, a reservation or a charge takes the balance to
\* exactly 0.
C1_Witness ==
  /\ last.op \in {"settle", "reserve"}
  /\ last.res.success
  /\ Appended # <<>>
  /\ Pre.credits > 0
  /\ Cur.credits = 0
  /\ \E i \in 1..Len(PreLedger) : PreLedger[i].reason = "generation"

\* ------------------------------------------------------------------ C2
\* C2: once settle has converted the reservation of g, release(g) is a
\* no-op: alreadyReleased = true, balance unchanged, no refund appended.
C2_ReleaseAfterSettleIsNoOp ==
  (last.op = "release" /\ Converted(PreEntries))
    => /\ last.res.success
       /\ last.res.alreadyReleased
       /\ Cur.credits = Pre.credits
       /\ Appended = <<>>

\* ------------------------------------------------------------------ C3
\* C3: of settle(g) and release(g), in either order, exactly one changes the
\* balance: the second of the two appends nothing and leaves the balance as
\* it was.
C3_SettleReleaseExclusive ==
  /\ (last.op = "settle" /\ Released(PreEntries))
       => (Cur.credits = Pre.credits /\ Appended = <<>>)
  /\ (last.op = "release" /\ Converted(PreEntries))
       => (Cur.credits = Pre.credits /\ Appended = <<>>)

\* ------------------------------------------------------------------ C4
\* C4: after one reserve(g), the second and every later release(g) returns
\* alreadyReleased = true, leaves balance and dailySpend unchanged and
\* appends no ledger entry.
C4_ReleaseIdempotent ==
  (last.op = "release" /\ Released(PreEntries))
    => /\ last.res.success
       /\ last.res.alreadyReleased
       /\ Cur.credits = Pre.credits
       /\ Cur.dailySpendUsd = Pre.dailySpendUsd
       /\ Appended = <<>>

\* ------------------------------------------------------------------ C5
\* C5: two reserve calls with the same account, generationId and amount and
\* no release between them append one reservation entry and debit the
\* balance once: they never both append and debit.
C5_ReserveTwiceOneEntry ==
  [][(/\ last.op = "reserve"
      /\ last'.op = "reserve"
      /\ ncalls' = ncalls + 1
      /\ last'.args.sid = last.args.sid
      /\ last'.args.generationId = last.args.generationId
      /\ last'.args.amount = last.args.amount)
     => ~(/\ Appended # <<>>
          /\ Len(creditLedger') > Len(creditLedger)
          /\ sessions'[last.args.sid].credits < Cur.credits)]_vars

\* ------------------------------------------------------------------ C6
\* C6: while the reservation of g is on the ledger, a retried reserve(g)
\* returns success with alreadyReserved = true and newBalance = the current
\* balance, whatever the balance and dailySpend are.
C6_RetryNeverRejected ==
  (last.op = "reserve" /\ Outstanding(PreEntries))
    => /\ last.res.success
       /\ last.res.alreadyReserved
       /\ last.res.newBalance = {Pre.credits}

\* ------------------------------------------------------------------ C7
\* C7: a reserve of A followed by settle(reservedAmount = A, actualAmount =
\* B) on the same generationId leaves the balance at initial - B: for B < A
\* with refunded = A - B, for B = A with no change at the settle, for B > A
\* with additionalCharged = B - A when the balance after the reserve is at
\* least B - A.
C7_ReserveSettleRoundTrip ==
  [][(/\ last.op = "reserve"
      /\ last.res.success
      /\ ~last.res.alreadyReserved
      /\ last'.op = "settle"
      /\ ncalls' = ncalls + 1
      /\ last'.args.sid = last.args.sid
      /\ last'.args.generationId = last.args.generationId
      /\ last'.args.amount = last.args.amount)
     => LET A == last.args.amount
            B == Opt(last'.args.actualAmount, last'.args.amount)
            initial == Pre.credits
            after == sessions'[last.args.sid].credits
        IN /\ B < A => (after = initial - B /\ last'.res.refunded = {A - B})
           /\ B = A => (after = Cur.credits /\ after = initial - B)
           /\ (B > A /\ Cur.credits >= B - A)
                => (after = initial - B
                    /\ last'.res.additionalCharged = {B - A})]_vars

\* ------------------------------------------------------------------ C8
\* C8: when settle finds an unconverted reservation of A, the actual amount
\* B is greater than A and the balance is less than B - A, it returns
\* success with shortfall = B - A, appends a settlement of -A and a refund
\* of +A, and leaves the balance unchanged and not negative.
C8_Shortfall ==
  LET A == reservedAmountOf(PreEntries)
      B == Charge
  IN (/\ last.op = "settle"
      /\ netDelta(PreEntries) < 0
      /\ hasReservation(PreEntries) /\ ~hasGeneration(PreEntries)
      /\ B > A
      /\ Pre.credits < B - A)
     => /\ last.res.success
        /\ last.res.error = ""
        /\ last.res.shortfall = {B - A}
        /\ Len(Appended) = 2
        /\ Appended[1].reason = "generation" /\ Appended[1].delta = -A
        /\ Appended[2].reason = "refund" /\ Appended[2].delta = A
        /\ Cur.credits = Pre.credits
        /\ Cur.credits >= 0

\* The reservation took the whole balance and the settle asked for more:
\* balance 0 before and after, shortfall 1.
C8_Witness ==
  /\ last.op = "settle"
  /\ Outstanding(PreEntries)
  /\ Charge = reservedAmountOf(PreEntries) + 1
  /\ Pre.credits = 0
  /\ Cur.credits = 0
  /\ last.res.shortfall = {1}

\* ------------------------------------------------------------------ C9
\* C9: on a standard-tier account within its daily limit, reserve(g, amount)
\* for a generationId with no outstanding reservation succeeds if and only
\* if the balance is >= amount; on success it debits amount, adds the cost
\* to dailySpend and appends one reservation entry of -amount; on failure it
\* reports InsufficientCredits with required = amount and available = the
\* balance.
C9_ReserveIffBalance ==
  LET cost == Opt(last.args.costUsd, 0)
      check == checkDailySpendLimit(Pre, cost, last.before.now)
      amount == last.args.amount
  IN (/\ last.op = "reserve"
      /\ Pre.tier = "paid"
      /\ check.allowed
      /\ (PreEntries = <<>> \/ Released(PreEntries)))
     => /\ last.res.success <=> Pre.credits >= amount
        /\ last.res.success
             => /\ Cur.credits = Pre.credits - amount
                /\ Cur.dailySpendUsd = {check.currentSpend + cost}
                /\ Len(Appended) = 1
                /\ Appended[1].reason = "reservation"
                /\ Appended[1].delta = -amount
        /\ ~last.res.success
             => /\ last.res.error = "Insufficient credits"
                /\ last.res.required = {amount}
                /\ last.res.available = {Pre.credits}
                /\ NoOp

\* ------------------------------------------------------------------ C10
\* The credits the account was funded with, and the total of the
\* reservations on the ledger.
Funded == creditLedger[1].delta
TotalReserved == reservedAmountOf(creditLedger)

\* C10: in every interleaving of reserve calls on one account, the amounts of
\* the reservations that succeeded sum to at most the balance that was
\* available before them, and each reserve sees the balance left by the
\* reservations committed before it.
C10_ConcurrentReserves ==
  /\ TotalReserved <= Funded
  /\ sessions["s1"].credits = Funded - TotalReserved
  /\ (last.op = "reserve" /\ Appended # <<>>)
       => /\ Pre.credits = Funded - reservedAmountOf(PreLedger)
          /\ last.res.newBalance = {Pre.credits - last.args.amount}

\* Two reservations on distinct generationIds were committed and a third
\* request found too little left.
C10_Witness ==
  /\ last.op = "reserve"
  /\ last.res.error = "Insufficient credits"
  /\ Len(reservationEntries(creditLedger)) = 2
  /\ creditLedger[2].generationId # creditLedger[3].generationId
  /\ PreEntries = <<>>
  /\ last.res.available = {Funded - TotalReserved}

\* ----------------------------------------------------------------- C11
\* The entries of generationId g on the account, the amounts charged by its
\* generation entries and the amounts held by its reservation entries.
EntriesOf(g) == ledgerEntriesFor(creditLedger, g, "s1")
AmountsOf(entries, reason) ==
  {Abs(entries[i].delta) : i \in {j \in 1..Len(entries) : entries[j].reason = reason}}

\* C11: for every generationId the deltas of its ledger entries sum to 0
\* (released), to minus the amount charged (settled) or to minus the amount
\* reserved (outstanding), and to nothing else.
C11_NetPerGeneration ==
  \A g \in GENERATION_IDS :
    LET entries == EntriesOf(g)
    IN  \/ netDelta(entries) = 0
        \/ \E charged \in AmountsOf(entries, "generation") :
             netDelta(entries) = 0 - charged
        \/ /\ ~hasGeneration(entries)
           /\ \E reserved \in AmountsOf(entries, "reservation") :
                netDelta(entries) = 0 - reserved

\* ----------------------------------------------------------------- C12
CountOf(entries, reason) ==
  Cardinality({i \in 1..Len(entries) : entries[i].reason = reason})

\* C12: the entries of a generationId are appended in lifecycle order: at
\* most one reservation, which comes first, then at most one settlement with
\* its refund or one release refund; no generationId ever has two
\* reservation entries or two settlement entries.
C12_LifecycleOrder ==
  \A g \in GENERATION_IDS :
    LET entries == EntriesOf(g)
    IN  /\ CountOf(entries, "reservation") <= 1
        /\ CountOf(entries, "generation") <= 1
        /\ CountOf(entries, "refund") <= 1
        /\ hasReservation(entries) => entries[1].reason = "reservation"

\* ----------------------------------------------------------------- C13
\* C13: a settle on a generationId that already has a settlement entry
\* returns success with alreadyCharged = true and the current balance,
\* appends nothing and changes neither the balance nor dailySpend.
C13_SettleIdempotent ==
  (last.op = "settle" /\ hasGeneration(PreEntries))
    => /\ last.res.success
       /\ last.res.alreadyCharged
       /\ last.res.newBalance = {Pre.credits}
       /\ Appended = <<>>
       /\ Cur.credits = Pre.credits
       /\ Opt(Cur.dailySpendUsd, 0) = Opt(Pre.dailySpendUsd, 0)

\* ----------------------------------------------------------------- C20
\* What dailySpend counts on the day of timestamp t: the stored value, or 0
\* when the stored window is an earlier day.
SpendOn(session, t) ==
  IF Opt(session.lastDayReset, 0) < getUtcDayStart(t) THEN 0
  ELSE Opt(session.dailySpendUsd, 0)

\* The amount and the cost recorded by the outstanding reservation of the
\* generationId: those of its last reservation entry.
LastReservation(entries) ==
  LET res == reservationEntries(entries) IN res[Len(res)]

\* The reservation of the generationId is outstanding: its last entry is a
\* reservation.
IsOutstanding(entries) ==
  entries # <<>> /\ entries[Len(entries)].reason = "reservation"

\* C20: release of an outstanding reservation restores the balance by
\* exactly the reserved amount, lowers dailySpend by the recorded cost
\* (clamped at 0) and appends exactly one refund entry of +reservedAmount.
C20_ReleaseRestores ==
  (last.op = "release" /\ IsOutstanding(PreEntries))
    => LET r == LastReservation(PreEntries)
       IN  /\ last.res.success
           /\ Cur.credits = Pre.credits + Abs(r.delta)
           /\ Opt(Cur.dailySpendUsd, 0)
                = Max(0, Opt(Pre.dailySpendUsd, 0) - Opt(r.costUsd, 0))
           /\ Len(Appended) = 1
           /\ Appended[1].reason = "refund"
           /\ Appended[1].delta = Abs(r.delta)

\* ------------------------------------------------------------- SpecGate
\* SpecGate: calls that are turned away. The account has spent 4.50 of its
\* 5.00 daily limit on an earlier reservation; requests cost nothing, 0.50,
\* 0.60 or 6.00, and some name an account that was never created.
GATE_SIDS == SIDS \cup {"s2"}
GateCostInputs == {{}, {5}, {6}, {60}}

\* createSession, addCredits(c + 1), reserveCredits(g0, 1, costUsd 4.50)
InitGate ==
  /\ chat = NoChat
  /\ adminAuditLog = <<>>
  /\ \E c \in InitialCredits :
       LET args == [NoArgs EXCEPT !.sid = "s1", !.generationId = "g0",
                                  !.amount = 1, !.costUsd = {45}]
           out == reserveCreditsInternal(
                    [sid \in SIDS |-> FundedSession(c + 1)],
                    <<LedgerEntry("s1", c + 1, "purchase", {}, {})>>, args, 2)
       IN  /\ sessions = out.sessions
           /\ creditLedger = out.ledger
  /\ now = 2
  /\ ncalls = 0
  /\ last = [op |-> "none", args |-> NoArgs, res |-> NoResult,
             before |-> [sessions |-> sessions, nledger |-> 0, now |-> 2]]

ReserveGate ==
  /\ ncalls < MaxCalls
  /\ \E sid \in GATE_SIDS :
       \E amount \in (IF sid \in SIDS THEN Amounts ELSE {1}),
          c \in (IF sid \in SIDS THEN GateCostInputs ELSE {{}}) :
         LET args == [NoArgs EXCEPT !.sid = sid, !.generationId = "g1",
                                    !.amount = amount, !.costUsd = c]
         IN Call("reserve", args,
                 reserveCreditsInternal(sessions, creditLedger, args, now))

ReleaseGate ==
  /\ ncalls < MaxCalls
  /\ \E sid \in GATE_SIDS :
       LET args == [NoArgs EXCEPT !.sid = sid, !.generationId = "g1"]
       IN Call("release", args,
               releaseReservationInternal(sessions, creditLedger, args))

SettleGate ==
  /\ ncalls < MaxCalls
  /\ \E sid \in GATE_SIDS :
       \E a \in (IF sid \in SIDS THEN SettleAmountInputs ELSE {<<1, {}>>}),
          c \in (IF sid \in SIDS THEN SettleCostInputs ELSE {<<{}, {}>>}) :
         LET args == [NoArgs EXCEPT !.sid = sid, !.generationId = "g1",
                                    !.amount = a[1], !.actualAmount = a[2],
                                    !.costUsd = c[1], !.actualCostUsd = c[2]]
         IN Call("settle", args,
                 deductCreditsInternal(sessions, creditLedger, args))

NextGate == ReserveGate \/ ReleaseGate \/ SettleGate \/ Tick

SpecGate == InitGate /\ [][NextGate]_vars

\* ----------------------------------------------------------------- C14
\* C14: on a standard-tier account a reserve whose cost would take the
\* day's spend over the limit is rejected with "Daily spending limit
\* exceeded", reports the limit, the amount spent and remaining =
\* max(0, limit - spent), and leaves balance, dailySpend and ledger as they
\* were.
C14_DailyLimitRejected ==
  (/\ last.op = "reserve"
   /\ last.args.sid \in DOMAIN last.before.sessions
   /\ Pre.tier # "admin"
   /\ SpendOn(Pre, last.before.now) + Opt(last.args.costUsd, 0)
        > Opt(Pre.dailySpendLimitUsd, DEFAULT_DAILY_SPEND_LIMIT_USD))
    => LET limit == Opt(Pre.dailySpendLimitUsd, DEFAULT_DAILY_SPEND_LIMIT_USD)
           spent == SpendOn(Pre, last.before.now)
       IN  /\ ~last.res.success
           /\ last.res.error = "Daily spending limit exceeded"
           /\ last.res.dailyLimit = {limit}
           /\ last.res.dailySpent = {spent}
           /\ last.res.remaining = {Max(0, limit - spent)}
           /\ NoOp

\* Limit 5.00, spent 4.50, request of 0.60: rejected, remaining 0.50.
C14_Witness ==
  /\ last.op = "reserve"
  /\ last.args.costUsd = {6}
  /\ Pre.dailySpendUsd = {45}
  /\ last.res.error = "Daily spending limit exceeded"
  /\ last.res.dailyLimit = {50}
  /\ last.res.dailySpent = {45}
  /\ last.res.remaining = {5}

\* ----------------------------------------------------------------- C19
\* C19: a reserve, settle or release call that returns a failure (account
\* not found, insufficient credits, daily limit exceeded) leaves the
\* balance, dailySpend, the window start, the tier and the ledger exactly as
\* they were.
C19_FailureChangesNothing ==
  (last.op \in {"reserve", "settle", "release"} /\ ~last.res.success)
    => /\ last.res.error \in {"Session not found", "Insufficient credits",
                              "Daily spending limit exceeded"}
       /\ NoOp

\* A reserve is turned away by the daily limit on the day after the stored
\* window: the stale window of the day before stays stored.
C19_Witness ==
  /\ last.op = "reserve"
  /\ ~last.res.success
  /\ last.res.error = "Daily spending limit exceeded"
  /\ last.res.dailySpent = {0}
  /\ Cur.dailySpendUsd = {45}
  /\ Cur.lastDayReset = {2}
  /\ getUtcDayStart(last.before.now) = 4

\* ============================================================= chat route
\* The chat route that wraps the response stream: one request on account
\* "s1". Every await of the handler and of the stream callbacks is a point
\* where the other callbacks can run, so each action below is the code
\* between two awaits. A mutation that throws was rolled back by Convex: it
\* wrote nothing. The account is not of the admin tier, for which the route
\* reserves nothing.
CHAT_SID == "s1"
CHAT_GENERATION_ID == "g1"
MaxChunks == 2
ChatInitialCredits == {0, 1, 2}
EarlyExitReasons == {"empty-messages", "chat-error"}

\* createSession, addCredits(c + 1) and one direct debit of 1 credit on
\* another generationId: the account holds c credits.
InitChat ==
  /\ chat = NoChat
  /\ adminAuditLog = <<>>
  /\ \E c \in ChatInitialCredits :
       LET args == [NoArgs EXCEPT !.sid = CHAT_SID, !.generationId = "g0",
                                  !.amount = 1]
           out == deductCreditsInternal(
                    [sid \in SIDS |-> FundedSession(c + 1)],
                    <<LedgerEntry(CHAT_SID, c + 1, "purchase", {}, {})>>, args)
       IN  /\ sessions = out.sessions
           /\ creditLedger = out.ledger
  /\ now = 2
  /\ ncalls = 0
  /\ last = [op |-> "none", args |-> NoArgs, res |-> NoResult,
             before |-> [sessions |-> sessions, nledger |-> 0, now |-> 2]]

\* The arguments of the three mutations the route calls.
ChatReserveArgs ==
  [NoArgs EXCEPT !.sid = CHAT_SID, !.generationId = CHAT_GENERATION_ID,
                 !.amount = 1]
ChatDeductArgs ==
  [NoArgs EXCEPT !.sid = CHAT_SID, !.generationId = CHAT_GENERATION_ID,
                 !.amount = 1]
ChatReleaseArgs ==
  [NoArgs EXCEPT !.sid = CHAT_SID, !.generationId = CHAT_GENERATION_ID]

\* No mutation is called: the tables stay as they are.
NoCall == UNCHANGED <<sessions, creditLedger, now, ncalls, last, adminAuditLog>>

\* if (session.credits < 1) return 402; else reserveCredits(amount: 1);
\* if (!reserveResult.success) return 402; creditReserved = true
ChatReserve ==
  /\ chat.pc = "start"
  /\ IF sessions[CHAT_SID].credits < 1
     THEN /\ chat' = [chat EXCEPT !.route = "part_002", !.pc = "returned"]
          /\ NoCall
     ELSE LET out == reserveCreditsInternal(sessions, creditLedger,
                                            ChatReserveArgs, now)
          IN /\ Apply("reserve", ChatReserveArgs, out)
             /\ chat' = IF out.res.success
                        THEN [chat EXCEPT
                                !.route = "part_002", !.pc = "reserved",
                                !.creditReserved = TRUE,
                                !.balanceBefore = sessions[CHAT_SID].credits]
                        ELSE [chat EXCEPT !.route = "part_002",
                                          !.pc = "returned"]

\* releaseReservedCredits(reason): nothing without a reservation, else
\* releaseReservation, whose errors are logged and swallowed.
releaseReservedCredits(c) ==
  IF ~c.creditReserved
  THEN /\ chat' = c
       /\ NoCall
  ELSE /\ Apply("release", ChatReleaseArgs,
                releaseReservationInternal(sessions, creditLedger,
                                           ChatReleaseArgs))
       /\ chat' = [c EXCEPT !.releaseCalls = @ + 1]

\* The request ends before a stream exists: every message is empty (400) or
\* the try block throws (catch, 4xx/5xx). Both release the reservation.
ChatEarlyExit ==
  /\ chat.route = "part_002"
  /\ chat.pc = "reserved"
  /\ \E reason \in EarlyExitReasons :
       releaseReservedCredits([chat EXCEPT !.pc = "returned",
                                           !.first = reason])

\* streamText, pipeThrough(creditDeductionStream), new ReadableStream whose
\* start() begins the pump, return new Response(cancelAwareBody).
ChatStartStream ==
  /\ chat.route = "part_002"
  /\ chat.pc = "reserved"
  /\ chat' = [chat EXCEPT !.pc = "streaming", !.upstream = "flowing",
                          !.pump = "reading", !.output = "open"]
  /\ NoCall

\* A variant without the guard on the settlement promise.
alreadySettling_Never(c) == FALSE

\* if (creditSettlement) return creditSettlement;
alreadySettling(c) == c.creditSettlement # "null"

\* settleCredits(mode, reason) up to the first await of the async function
\* it starts: the first call stores the promise, the later ones return it.
settleCredits(c, mode, reason) ==
  IF ~c.creditReserved THEN c
  ELSE IF alreadySettling(c) THEN [c EXCEPT !.triggers = @ + 1]
  ELSE [c EXCEPT !.creditSettlement = "pending", !.settling = mode,
                 !.mode = mode, !.first = reason, !.triggers = @ + 1]

\* A variant that settles on every trigger.
triggerMode_AlwaysDeduct(reason) == "deduct"

\* flush() calls settleCredits("deduct", "stream-finish"); the pump's catch
\* and cancel() call settleCredits("release", ...).
triggerMode(reason) == IF reason = "stream-finish" THEN "deduct" ELSE "release"

\* The upstream delivers a chunk: transform() passes it on and the pump
\* enqueues it. On a cancelled body controller.enqueue throws, which takes
\* the pump to its catch block.
UpstreamChunk ==
  /\ chat.route = "part_002"
  /\ chat.upstream = "flowing"
  /\ chat.chunks < MaxChunks
  /\ chat' = IF chat.pump = "reading" /\ chat.output # "open"
             THEN settleCredits([chat EXCEPT !.chunks = @ + 1,
                                             !.pump = "catch"],
                                triggerMode("stream-error"), "stream-error")
             ELSE [chat EXCEPT !.chunks = @ + 1]
  /\ NoCall

\* The upstream ends: the TransformStream calls flush(), which awaits
\* settleCredits("deduct", "stream-finish") before its output closes.
UpstreamEnd ==
  /\ chat.route = "part_002"
  /\ chat.upstream = "flowing"
  /\ chat' = settleCredits([chat EXCEPT !.upstream = "ended",
                                        !.flush = "waiting"],
                           triggerMode("stream-finish"), "stream-finish")
  /\ NoCall

\* The upstream errors: reader.read() rejects in the pump, whose catch
\* awaits settleCredits("release", "stream-error").
UpstreamError ==
  /\ chat.route = "part_002"
  /\ chat.upstream = "flowing"
  /\ chat' = IF chat.pump = "reading"
             THEN settleCredits([chat EXCEPT !.upstream = "errored",
                                             !.pump = "catch"],
                                triggerMode("stream-error"), "stream-error")
             ELSE [chat EXCEPT !.upstream = "errored"]
  /\ NoCall

\* The client cancels the body: cancel() runs. streamedBody is locked by the
\* pump's reader, so streamedBody.cancel rejects at once, the rejection is
\* ignored, and settleCredits("release", "stream-cancel") follows in the
\* same turn. The upstream is not cancelled.
ClientCancel ==
  /\ chat.route = "part_002"
  /\ chat.pc = "streaming"
  /\ chat.output = "open"
  /\ chat' = settleCredits([chat EXCEPT !.output = "cancelled"],
                           triggerMode("stream-cancel"), "stream-cancel")
  /\ NoCall


\* A variant that resolves the settlement without releasing.
afterDeductFailure_NoRelease(c) ==
  [c EXCEPT !.deductCalls = @ + 1, !.deductFailed = TRUE,
            !.settling = "done", !.creditSettlement = "resolved"]

\* if (!deductResult.success) and catch (err): the settlement goes on to
\* await releaseReservedCredits("deduct-failed" / "deduct-error").
afterDeductFailure(c) ==
  [c EXCEPT !.deductCalls = @ + 1, !.deductFailed = TRUE,
            !.settling = "release"]

\* The settlement awaits deductCredits, which returns: on success the
\* promise resolves, else releaseReservedCredits("deduct-failed") is next.
DeductReturns ==
  /\ chat.route = "part_002"
  /\ chat.settling = "deduct"
  /\ LET out == deductCreditsInternal(sessions, creditLedger, ChatDeductArgs)
     IN /\ Apply("settle", ChatDeductArgs, out)
        /\ chat' = IF out.res.success
                   THEN [chat EXCEPT !.deductCalls = @ + 1,
                                     !.settling = "done",
                                     !.creditSettlement = "resolved"]
                   ELSE afterDeductFailure(chat)

\* deductCredits throws: releaseReservedCredits("deduct-error") is next.
DeductThrows ==
  /\ chat.route = "part_002"
  /\ chat.settling = "deduct"
  /\ chat' = afterDeductFailure(chat)
  /\ NoCall

\* The settlement awaits releaseReservedCredits, then resolves.
ReleaseReturns ==
  /\ chat.route = "part_002"
  /\ chat.settling = "release"
  /\ releaseReservedCredits([chat EXCEPT !.settling = "done",
                                         !.creditSettlement = "resolved"])

\* The promise settleCredits returns has resolved: Promise.resolve() when
\* nothing is reserved, creditSettlement otherwise.
settlementResolved(c) == ~c.creditReserved \/ c.creditSettlement = "resolved"

\* A variant of flush() that does not await the settlement.
flushMayReturn_NoAwait(c) == TRUE

\* await settleCredits(...) in flush(): flush returns once the settlement
\* promise has resolved.
flushMayReturn(c) == settlementResolved(c)

\* flush() returns, the output of the TransformStream closes, the pump reads
\* done and calls controller.close(): the consumer sees the end of the body.
StreamClose ==
  /\ chat.route = "part_002"
  /\ chat.flush = "waiting"
  /\ flushMayReturn(chat)
  /\ chat' = [chat EXCEPT
                !.flush = "done",
                !.pump = IF @ = "reading" THEN "stopped" ELSE @,
                !.output = IF @ = "open" /\ chat.pump = "reading"
                           THEN "closed" ELSE @]
  /\ NoCall

\* The settlement awaited in the pump's catch has resolved:
\* controller.error(err).
PumpError ==
  /\ chat.route = "part_002"
  /\ chat.pump = "catch"
  /\ settlementResolved(chat)
  /\ chat' = [chat EXCEPT !.pump = "stopped",
                          !.output = IF @ = "open" THEN "errored" ELSE @]
  /\ NoCall

NextChat ==
  \/ ChatReserve \/ ChatEarlyExit \/ ChatStartStream
  \/ UpstreamChunk \/ UpstreamEnd \/ UpstreamError \/ ClientCancel
  \/ DeductReturns \/ DeductThrows \/ ReleaseReturns
  \/ StreamClose \/ PumpError

SpecChat == InitChat /\ [][NextChat]_vars

\* The ledger entries of the chat request.
ChatEntries == ledgerEntriesFor(creditLedger, CHAT_GENERATION_ID, CHAT_SID)

\* ----------------------------------------------------------------- C15
\* C15: for a chat stream that holds a reservation, the trigger that calls
\* settleCredits first (finish, cancel or stream error) decides the outcome;
\* later triggers, in any order, start no settle and no release, and exactly
\* one terminal ledger action is taken: one settle or one release.
C15_OneTerminalAction ==
  (chat.route = "part_002" /\ chat.pc = "streaming")
    => /\ chat.deductCalls <= 1
       /\ chat.releaseCalls <= 1
       /\ chat.mode = "release" => chat.deductCalls = 0
       /\ (chat.mode = "deduct" /\ ~chat.deductFailed) => chat.releaseCalls = 0
       /\ chat.mode = triggerMode(chat.first) \/ chat.mode = "none"
       /\ IF chat.creditSettlement = "resolved"
          THEN Converted(ChatEntries) \/ Released(ChatEntries)
          ELSE Outstanding(ChatEntries)

\* The stream finished and the client cancelled while deductCredits was in
\* flight: two triggers, one settle, no release.
C15_Witness ==
  /\ chat.route = "part_002"
  /\ chat.creditSettlement = "resolved"
  /\ chat.first = "stream-finish"
  /\ chat.triggers >= 2
  /\ chat.output = "cancelled"
  /\ Converted(ChatEntries)
  /\ chat.releaseCalls = 0

\* ----------------------------------------------------------------- C16
\* C16: when the stream is cancelled by the client or errors before it has
\* finished, the route calls release exactly once and never calls settle,
\* and the balance returns to its value before the reservation.
C16_CancelOrErrorReleases ==
  (chat.route = "part_002" /\ chat.first \in {"stream-cancel", "stream-error"})
    => /\ chat.deductCalls = 0
       /\ chat.releaseCalls <= 1
       /\ chat.creditSettlement = "resolved"
            => /\ chat.releaseCalls = 1
               /\ Released(ChatEntries)
               /\ sessions[CHAT_SID].credits = chat.balanceBefore

\* The client cancelled after the first chunk, the upstream ended later:
\* one release, the balance is back.
C16_Witness ==
  /\ chat.route = "part_002"
  /\ chat.first = "stream-cancel"
  /\ chat.chunks >= 1
  /\ chat.upstream = "ended"
  /\ chat.creditSettlement = "resolved"
  /\ chat.releaseCalls = 1
  /\ sessions[CHAT_SID].credits = chat.balanceBefore
  /\ chat.balanceBefore >= 1

\* ----------------------------------------------------------------- C18
\* C18: on normal finish deductCredits is issued only once the upstream has
\* ended, and the settlement has completed before the body signals its end
\* to the consumer: no reservation is outstanding then, and the charge is in
\* the ledger unless the settle call itself failed.
C18_SettledBeforeClose ==
  chat.route = "part_002"
    => /\ (chat.mode = "deduct" \/ chat.deductCalls > 0)
            => chat.upstream = "ended"
       /\ chat.output = "closed"
            => /\ chat.creditSettlement = "resolved"
               /\ chat.deductCalls = 1
               /\ ~Outstanding(ChatEntries)
               /\ Converted(ChatEntries) \/ chat.deductFailed

\* Two chunks were delivered, the stream ended and the consumer saw the body
\* close with the charge in the ledger.
C18_Witness ==
  /\ chat.route = "part_002"
  /\ chat.output = "closed"
  /\ chat.chunks = MaxChunks
  /\ Converted(ChatEntries)
  /\ sessions[CHAT_SID].credits = chat.balanceBefore - 1

\* ===================================================== chat route, onFinish
\* The chat route that settles in the onFinish callback of streamText: one
\* request on account "s1". It reserves the estimated credits of the
\* request and charges the credits of the tokens actually used. streamText
\* calls onFinish when the generation has finished; a generation that the
\* client aborts or that errors does not finish and onFinish is not called.
\* The route registers no other callback and returns the stream of
\* streamText unwrapped.

\* CREDIT_USD = 0.01, in cents
CREDIT_USD == 1

\* estimatedCredits * CREDIT_USD in the unit of costUsd here, a tenth of a
\* dollar: ten cents make one unit, what is left of a unit is dropped.
CostOfCredits(credits) == (credits * CREDIT_USD) \div 10

\* reserveCredits(amount: estimatedCredits, costUsd: estimatedCostUsd);
\* if (!reserveResult.success) return 402; reservationMade = true
FinishReserve ==
  /\ chat.pc = "start"
  /\ \E estimatedCredits \in Amounts :
       LET args == [ChatReserveArgs EXCEPT
                      !.amount = estimatedCredits,
                      !.costUsd = {CostOfCredits(estimatedCredits)}]
           out == reserveCreditsInternal(sessions, creditLedger, args, now)
       IN /\ Apply("reserve", args, out)
          /\ chat' = IF out.res.success
                     THEN [chat EXCEPT
                             !.route = "part_003", !.pc = "reserved",
                             !.creditReserved = TRUE,
                             !.balanceBefore = sessions[CHAT_SID].credits]
                     ELSE [chat EXCEPT !.route = "part_003",
                                       !.pc = "returned"]

\* The try block throws before the response is returned: the catch releases
\* the reservation and answers 500.
FinishEarlyError ==
  /\ chat.route = "part_003"
  /\ chat.pc = "reserved"
  /\ releaseReservedCredits([chat EXCEPT !.pc = "returned",
                                         !.first = "chat-error"])

\* return result.toUIMessageStreamResponse(...)
FinishStartStream ==
  /\ chat.route = "part_003"
  /\ chat.pc = "reserved"
  /\ chat' = [chat EXCEPT !.pc = "streaming", !.upstream = "flowing",
                          !.output = "open"]
  /\ NoCall

FinishChunk ==
  /\ chat.route = "part_003"
  /\ chat.upstream = "flowing"
  /\ chat.chunks < MaxChunks
  /\ chat' = [chat EXCEPT !.chunks = @ + 1]
  /\ NoCall

\* The generation finishes: streamText calls onFinish, which awaits
\* deductCredits.
FinishUpstreamEnd ==
  /\ chat.route = "part_003"
  /\ chat.upstream = "flowing"
  /\ chat' = [chat EXCEPT !.upstream = "ended", !.settling = "deduct",
                          !.mode = "deduct", !.first = "stream-finish",
                          !.output = IF @ = "open" THEN "closed" ELSE @]
  /\ NoCall

\* deductCredits(amount: actualCredits, costUsd: actualCostUsd) returns; a
\* result without success is logged and nothing else is done.
FinishDeductReturns ==
  /\ chat.route = "part_003"
  /\ chat.settling = "deduct"
  /\ \E actualCredits \in ActualAmounts :
       LET args == [ChatDeductArgs EXCEPT
                      !.amount = actualCredits,
                      !.costUsd = {CostOfCredits(actualCredits)}]
           out == deductCreditsInternal(sessions, creditLedger, args)
       IN /\ Apply("settle", args, out)
          /\ chat' = [chat EXCEPT !.deductCalls = @ + 1,
                                  !.deductFailed = ~out.res.success,
                                  !.settling = "done"]

\* deductCredits throws: the catch of onFinish calls releaseReservation.
FinishDeductThrows ==
  /\ chat.route = "part_003"
  /\ chat.settling = "deduct"
  /\ chat' = [chat EXCEPT !.deductCalls = @ + 1, !.deductFailed = TRUE,
                          !.settling = "release"]
  /\ NoCall

FinishReleaseReturns ==
  /\ chat.route = "part_003"
  /\ chat.settling = "release"
  /\ releaseReservedCredits([chat EXCEPT !.settling = "done"])

\* The client aborts the request while the generation is running: the
\* response stream is cancelled and with it the generation. No callback of
\* the route runs.
FinishClientCancel ==
  /\ chat.route = "part_003"
  /\ chat.upstream = "flowing"
  /\ chat' = [chat EXCEPT !.upstream = "cancelled", !.output = "cancelled",
                          !.first = "stream-cancel"]
  /\ NoCall

\* The generation errors mid-stream: the response stream ends with the
\* error. No callback of the route runs.
FinishUpstreamError ==
  /\ chat.route = "part_003"
  /\ chat.upstream = "flowing"
  /\ chat' = [chat EXCEPT !.upstream = "errored", !.output = "errored",
                          !.first = "stream-error"]
  /\ NoCall

NextChatFinish ==
  \/ FinishReserve \/ FinishEarlyError \/ FinishStartStream
  \/ FinishChunk \/ FinishUpstreamEnd
  \/ FinishDeductReturns \/ FinishDeductThrows \/ FinishReleaseReturns
  \/ FinishClientCancel \/ FinishUpstreamError

\* SpecChatLive: a request handled by either chat route. Every step that is
\* possible is eventually taken: the runtime runs every callback whose
\* await has completed, and every stream ends, errors or is cancelled.
NextChatLive == NextChat \/ NextChatFinish

SpecChatLive ==
  InitChat /\ [][NextChatLive]_vars /\ WF_vars(NextChatLive)

\* ----------------------------------------------------------------- C17
\* C17: every chat request that reserved credits eventually has its
\* reservation settled or released, on every path on which the request can
\* end; no reservation stays outstanding forever.
C17_EventuallyTerminal ==
  (chat.creditReserved /\ Outstanding(ChatEntries))
    ~> (Converted(ChatEntries) \/ Released(ChatEntries))

\* ----------------------------------------------------------------- C21
\* C21: settle on a generationId that has no ledger entries is a direct
\* debit: with balance >= the amount charged it debits exactly that amount
\* and appends exactly one settlement entry and no refund; otherwise it is
\* rejected with "Insufficient credits", reports required and available,
\* and changes nothing.
C21_DirectDebit ==
  (last.op = "settle" /\ PreEntries = <<>>)
    => IF Pre.credits >= Charge
       THEN /\ last.res.success
            /\ Cur.credits = Pre.credits - Charge
            /\ last.res.newBalance = {Cur.credits}
            /\ Len(Appended) = 1
            /\ Appended[1].reason = "generation"
            /\ Appended[1].delta = 0 - Charge
            /\ Appended[1].generationId = {last.args.generationId}
       ELSE /\ ~last.res.success
            /\ last.res.error = "Insufficient credits"
            /\ last.res.required = {Charge}
            /\ last.res.available = {Pre.credits}
            /\ NoOp

\* A direct debit takes the whole balance, after an earlier call had
\* lowered it.
C21_Witness ==
  /\ last.op = "settle"
  /\ PreEntries = <<>>
  /\ last.res.success
  /\ Pre.credits = Charge
  /\ Cur.credits = 0
  /\ Len(PreLedger) >= 2
  /\ Reasons(Appended) = <<"generation">>

\* ------------------------------------------------------------ SpecAdmin
\* upgradeToAdminInternal: ctx.db.patch(session._id, { tier: "admin" })
UpgradeToAdmin ==
  /\ sessions[CHAT_SID].tier # "admin"
  /\ sessions' = [sessions EXCEPT ![CHAT_SID].tier = "admin"]
  /\ UNCHANGED <<creditLedger, now, ncalls, last, chat, adminAuditLog>>

\* Amounts up to one more than the largest balance of InitGate.
AdminAmounts == 1..(MaxAmount + 2)

ReserveAdmin ==
  /\ ncalls < MaxCalls
  /\ \E amount \in AdminAmounts, c \in GateCostInputs :
       LET args == [NoArgs EXCEPT !.sid = CHAT_SID, !.generationId = "g1",
                                  !.amount = amount, !.costUsd = c]
       IN Call("reserve", args,
               reserveCreditsInternal(sessions, creditLedger, args, now))

\* SpecAdmin: reserve and release calls on an account that is upgraded to
\* the admin tier at some point.
NextAdmin == UpgradeToAdmin \/ ReserveAdmin \/ ReleaseGate \/ Tick

SpecAdmin == InitGate /\ [][NextAdmin]_vars

\* ----------------------------------------------------------------- C22
\* C22 as stated: for an admin account reserve of any amount skips the
\* daily-spend check and the balance check and returns success without
\* changing the balance.
C22_AdminReserveChangesNothing ==
  (/\ last.op = "reserve"
   /\ last.args.sid \in DOMAIN last.before.sessions
   /\ Pre.tier = "admin")
    => /\ last.res.success
       /\ Cur.credits = Pre.credits

\* C22 as the code has it: for an admin account reserve skips the
\* daily-spend check only. It is never rejected for the daily limit,
\* whatever the cost; the first reserve of a generationId whose amount
\* exceeds the balance is rejected with "Insufficient credits" and changes
\* nothing; and a reserve that records a reservation lowers the balance by
\* its amount.
C22_AdminSkipsDailyLimitOnly ==
  (/\ last.op = "reserve"
   /\ last.args.sid \in DOMAIN last.before.sessions
   /\ Pre.tier = "admin")
    => /\ last.res.error # "Daily spending limit exceeded"
       /\ (PreEntries = <<>> /\ last.args.amount > Pre.credits)
            => /\ ~last.res.success
               /\ last.res.error = "Insufficient credits"
               /\ NoOp
       /\ Appended # <<>>
            => /\ last.res.success
               /\ Reasons(Appended) = <<"reservation">>
               /\ Cur.credits = Pre.credits - last.args.amount

\* An admin account with 4.50 of its 5.00 spent reserves at a cost of 6.00:
\* the reserve succeeds and debits the balance.
C22_Witness ==
  /\ last.op = "reserve"
  /\ last.args.sid = CHAT_SID
  /\ Pre.tier = "admin"
  /\ last.args.costUsd = {60}
  /\ SpendOn(Pre, last.before.now) = 45
  /\ last.res.success
  /\ Reasons(Appended) = <<"reservation">>
  /\ Cur.credits = Pre.credits - last.args.amount

\* ----------------------------------------------------------------- C23
\* C23: on a standard-tier account whose stored window started before
\* today's UTC midnight, a reserve is checked against a dailySpend of 0: it
\* is turned away by the daily limit only if its cost alone exceeds the
\* limit. The write that records the reservation sets dailySpend to exactly
\* the cost of the reservation and the window start to today's UTC
\* midnight. Nothing but a reserve call moves the window.
C23_LazyDailyReset ==
  /\ (/\ last.op = "reserve"
      /\ last.args.sid \in DOMAIN last.before.sessions
      /\ Pre.tier # "admin"
      /\ Opt(Pre.lastDayReset, 0) < getUtcDayStart(last.before.now))
       => LET cost == Opt(last.args.costUsd, 0)
              limit == Opt(Pre.dailySpendLimitUsd, DEFAULT_DAILY_SPEND_LIMIT_USD)
          IN  /\ last.res.error = "Daily spending limit exceeded" <=> cost > limit
              /\ last.res.error = "Daily spending limit exceeded"
                   => last.res.dailySpent = {0}
              /\ Appended # <<>>
                   => /\ Reasons(Appended) = <<"reservation">>
                      /\ Cur.dailySpendUsd = {cost}
                      /\ Cur.lastDayReset = {getUtcDayStart(last.before.now)}
  /\ last.op # "reserve"
       => \A sid \in DOMAIN sessions :
            sessions[sid].lastDayReset = last.before.sessions[sid].lastDayReset

\* 4.50 of 5.00 was spent on day 1; on day 2 a reserve costing 0.60 is
\* accepted and the account shows 0.60 spent since the midnight of day 2.
C23_Witness ==
  /\ last.op = "reserve"
  /\ last.args.sid = CHAT_SID
  /\ Pre.dailySpendUsd = {45}
  /\ Pre.lastDayReset = {2}
  /\ last.before.now = 4
  /\ last.args.costUsd = {6}
  /\ last.res.success
  /\ Cur.dailySpendUsd = {6}
  /\ Cur.lastDayReset = {4}

\* ------------------------------------------------------------ SpecGrant
\* SpecGrant: addCredits called with every kind of amount, on the account
\* and on an account that was never created, between reserve and release
\* calls on one generationId.
GrantInputs == {NegInfinity, 0 - 1, 0, NaN, Infinity} \cup Amounts
GrantReasons == {"purchase", "refund"}

GrantWide ==
  /\ ncalls < MaxCalls
  /\ \E sid \in GATE_SIDS :
       \E amount \in (IF sid \in SIDS THEN GrantInputs ELSE {1}),
          reason \in (IF sid \in SIDS THEN GrantReasons ELSE {"purchase"}) :
         LET args == [NoArgs EXCEPT !.sid = sid, !.amount = amount,
                                    !.reason = reason]
         IN Call("grant", args,
                 addCreditsInternal(sessions, creditLedger, args))

NextGrant ==
  \/ GrantWide
  \/ ncalls < MaxCalls /\ ReserveOn({"g1"})
  \/ ncalls < MaxCalls /\ ReleaseOn({"g1"})
  \/ Tick

SpecGrant == Init /\ [][NextGrant]_vars

\* ----------------------------------------------------------------- C24
\* C24: grant with a positive finite amount on an existing account succeeds
\* whatever the balance and dailySpend are: the balance rises by exactly
\* the amount, exactly one entry of +amount with the grant's reason and no
\* generationId is appended, and dailySpend, the window and the entries of
\* every generationId stay as they were. With an amount that is not
\* positive or not finite, or on a missing account, grant fails and changes
\* nothing.
C24_Grant ==
  last.op = "grant"
    => IF /\ last.args.amount \in 1..MaxAmount
          /\ last.args.sid \in DOMAIN last.before.sessions
       THEN /\ last.res.success
            /\ Cur.credits = Pre.credits + last.args.amount
            /\ last.res.newBalance = {Cur.credits}
            /\ Cur.dailySpendUsd = Pre.dailySpendUsd
            /\ Cur.lastDayReset = Pre.lastDayReset
            /\ Cur.dailySpendLimitUsd = Pre.dailySpendLimitUsd
            /\ Appended = <<LedgerEntry(last.args.sid, last.args.amount,
                                        last.args.reason, {}, {})>>
            /\ \A g \in GENERATION_IDS :
                 ledgerEntriesFor(creditLedger, g, last.args.sid)
                   = ledgerEntriesFor(PreLedger, g, last.args.sid)
       ELSE /\ ~last.res.success
            /\ NoOp

\* A grant on an account with balance 0, money spent today and an
\* outstanding reservation, which stays outstanding.
C24_Witness ==
  /\ last.op = "grant"
  /\ last.args.sid = CHAT_SID
  /\ last.res.success
  /\ Pre.credits = 0
  /\ Opt(Pre.dailySpendUsd, 0) > 0
  /\ Outstanding(ledgerEntriesFor(creditLedger, "g1", CHAT_SID))
  /\ Cur.credits = last.args.amount

\* ------------------------------------------- image route (two-phase flow)
\* GET /api/generate-image: reserve an estimate, run the optional scene
\* planner, call the image provider, then settle or release. One request
\* on the account CHAT_SID, under the generationId IMAGE_GENERATION_ID.
IMAGE_GENERATION_ID == "g1"

\* computeChatCreditsCost of the scene planner call
SCENE_PLANNER_CREDITS == 1

\* ENABLE_SCENE_PLANNER = false; isModelFree(planner model); a priced model
PlannerModes == {"disabled", "free", "paid"}

\* provider error (non-2xx), content that is no JSON, plan without action
\* and setting
PlannerFailures == {"provider-error", "malformed-plan", "missing-fields"}

\* non-2xx response; 200 response without an image
ProviderFailures == {"non-2xx", "no-image"}

\* The handler of the image route before it has run.
NoImage ==
  [route |-> "image", pc |-> "start", isAdmin |-> FALSE,
   creditReserved |-> FALSE, reservedAmount |-> 0, planner |-> "disabled",
   plannerOutcome |-> "none", provider |-> "none", status |-> 0,
   reserveCalls |-> 0, deductCalls |-> 0, releaseCalls |-> 0,
   grantCalls |-> 0, granted |-> 0, balanceBefore |-> 0]

\* One account as in Init and a request to the image route.
InitImage ==
  /\ chat = NoImage
  /\ adminAuditLog = <<>>
  /\ \E c \in InitialCredits :
       /\ sessions = [sid \in SIDS |-> FundedSession(c)]
       /\ creditLedger = <<LedgerEntry(CHAT_SID, c, "purchase", {}, {})>>
  /\ now = 2
  /\ ncalls = 0
  /\ last = [op |-> "none", args |-> NoArgs, res |-> NoResult,
             before |-> [sessions |-> sessions, nledger |-> 0, now |-> 2]]

\* creditsCost === null: 400 before anything is reserved.
ImageRejectUnpriced ==
  /\ chat.route = "image"
  /\ chat.pc = "start"
  /\ chat' = [chat EXCEPT !.pc = "done", !.status = 400]
  /\ NoCall

\* reserveCredits(estimate); 402 on insufficient credits, 429 on the daily
\* limit; else on to the scene planner, when it is enabled.
ImageReserve ==
  /\ chat.route = "image"
  /\ chat.pc = "start"
  /\ sessions[CHAT_SID].tier # "admin"
  /\ \E planner \in PlannerModes, amount \in Amounts, c \in CostInputs :
       LET args == [NoArgs EXCEPT !.sid = CHAT_SID,
                                  !.generationId = IMAGE_GENERATION_ID,
                                  !.amount = amount, !.costUsd = c]
           out == reserveCreditsInternal(sessions, creditLedger, args, now)
           c1 == [chat EXCEPT !.reserveCalls = @ + 1, !.planner = planner,
                              !.balanceBefore = sessions[CHAT_SID].credits]
       IN /\ Apply("reserve", args, out)
          /\ chat' =
               IF out.res.success
               THEN [c1 EXCEPT !.creditReserved = TRUE,
                               !.reservedAmount = amount,
                               !.pc = IF planner = "disabled"
                                      THEN "generate" ELSE "planner"]
               ELSE [c1 EXCEPT !.pc = "done",
                               !.status =
                                 IF out.res.error =
                                      "Daily spending limit exceeded"
                                 THEN 429 ELSE 402]

\* The scene planner returns a plan with every required field.
PlannerSucceeds ==
  /\ chat.route = "image"
  /\ chat.pc = "planner"
  /\ chat' = [chat EXCEPT !.pc = "generate", !.plannerOutcome = "used"]
  /\ NoCall

\* The planner's credits are owed back when its model is not free and the
\* request holds a reservation.
plannerRefundDue(c) == c.planner = "paid" /\ c.creditReserved

\* The scene planner fails: addCredits(SCENE_PLANNER_CREDITS,
\* "scene_planner_refund") when its credits are owed back; the image is
\* generated without a plan.
PlannerFails ==
  /\ chat.route = "image"
  /\ chat.pc = "planner"
  /\ \E kind \in PlannerFailures :
       LET c1 == [chat EXCEPT !.pc = "generate", !.plannerOutcome = kind]
           args == [NoArgs EXCEPT !.sid = CHAT_SID,
                                  !.amount = SCENE_PLANNER_CREDITS,
                                  !.reason = "scene_planner_refund"]
       IN IF plannerRefundDue(chat)
          THEN /\ Apply("grant", args,
                        addCreditsInternal(sessions, creditLedger, args))
               /\ chat' = [c1 EXCEPT !.grantCalls = @ + 1,
                                     !.granted = @ + SCENE_PLANNER_CREDITS]
          ELSE /\ chat' = c1
               /\ NoCall

\* The provider returns an image: deductCredits(reserved amount, actual
\* amount from the reported usage); 402 when the charge fails.
ProviderSucceeds ==
  /\ chat.route = "image"
  /\ chat.pc = "generate"
  /\ IF ~chat.creditReserved
     THEN /\ chat' = [chat EXCEPT !.pc = "done", !.provider = "image",
                                  !.status = 200]
          /\ NoCall
     ELSE \E actual \in ActualAmounts, c \in SettleCostInputs :
            LET args == [NoArgs EXCEPT !.sid = CHAT_SID,
                                       !.generationId = IMAGE_GENERATION_ID,
                                       !.amount = chat.reservedAmount,
                                       !.actualAmount = {actual},
                                       !.costUsd = c[1],
                                       !.actualCostUsd = c[2]]
                out == deductCreditsInternal(sessions, creditLedger, args)
            IN /\ Apply("settle", args, out)
               /\ chat' = [chat EXCEPT
                             !.pc = "done", !.provider = "image",
                             !.deductCalls = @ + 1,
                             !.status = IF out.res.success THEN 200 ELSE 402]

\* The provider fails: releaseReservation, then 500 with the provider's
\* failure.
ProviderFails ==
  /\ chat.route = "image"
  /\ chat.pc = "generate"
  /\ \E kind \in ProviderFailures :
       LET c1 == [chat EXCEPT !.pc = "done", !.provider = kind,
                              !.status = 500]
           args == [NoArgs EXCEPT !.sid = CHAT_SID,
                                  !.generationId = IMAGE_GENERATION_ID]
       IN IF chat.creditReserved
          THEN /\ Apply("release", args,
                        releaseReservationInternal(sessions, creditLedger,
                                                   args))
               /\ chat' = [c1 EXCEPT !.releaseCalls = @ + 1]
          ELSE /\ chat' = c1
               /\ NoCall

NextImage ==
  \/ ImageRejectUnpriced
  \/ ImageReserve
  \/ PlannerSucceeds
  \/ PlannerFails
  \/ ProviderSucceeds
  \/ ProviderFails
  \/ Tick

SpecImage == InitImage /\ [][NextImage]_vars

ImageEntries ==
  ledgerEntriesFor(creditLedger, IMAGE_GENERATION_ID, CHAT_SID)

\* ----------------------------------------------------------------- C25
\* C25: when the image provider fails after a successful reserve (non-2xx
\* response, or a response without an image), the request ends with
\* release called exactly once for its generationId and settle never
\* called, the failure is returned (500), and that release refunds the
\* reservation: its entries are reservation, refund and the balance is the
\* balance before the request plus what the scene planner refund granted.
C25_ProviderFailureReleases ==
  (chat.pc = "done" /\ chat.creditReserved /\ chat.provider \in ProviderFailures)
    => /\ chat.releaseCalls = 1
       /\ chat.deductCalls = 0
       /\ chat.status = 500
       /\ last.op = "release"
       /\ last.res.success
       /\ ~last.res.alreadyReleased
       /\ Released(ImageEntries)
       /\ sessions[CHAT_SID].credits = chat.balanceBefore + chat.granted

\* A request whose provider answered 200 without an image after the
\* reservation of 2 credits was made.
C25_Witness ==
  /\ chat.pc = "done"
  /\ chat.creditReserved
  /\ chat.reservedAmount = 2
  /\ chat.provider = "no-image"
  /\ chat.releaseCalls = 1
  /\ chat.status = 500
  /\ Released(ImageEntries)

\* The scene planner refunds in the ledger of the account.
PlannerRefunds ==
  SelectSeq(creditLedger,
            LAMBDA e : e.sid = CHAT_SID /\ e.reason = "scene_planner_refund")

\* The scene planner of the request has failed and its model is not free.
PaidPlannerFailed ==
  /\ chat.creditReserved
  /\ chat.planner = "paid"
  /\ chat.plannerOutcome \in PlannerFailures

\* ----------------------------------------------------------------- C26
\* C26: when the paid scene planner fails (provider error, malformed plan,
\* plan without its required fields), exactly one grant of the planner's
\* credits is issued, and the request still settles the main reservation
\* once the image arrives; when the planner succeeds, is disabled or runs
\* on a free model, no grant is issued.
C26_PlannerRefund ==
  /\ PaidPlannerFailed
       => /\ chat.grantCalls = 1
          /\ Len(PlannerRefunds) = 1
          /\ PlannerRefunds[1].delta = SCENE_PLANNER_CREDITS
          /\ PlannerRefunds[1].generationId = {}
          /\ (chat.pc = "generate" /\ last.op = "grant")
               => /\ last.res.success
                  /\ Cur.credits = Pre.credits + SCENE_PLANNER_CREDITS
                  /\ Outstanding(ImageEntries)
          /\ (chat.pc = "done" /\ chat.provider = "image")
               => /\ chat.deductCalls = 1
                  /\ chat.releaseCalls = 0
                  /\ last.op = "settle"
                  /\ last.args.generationId = IMAGE_GENERATION_ID
  /\ ~PaidPlannerFailed
       => /\ chat.grantCalls = 0
          /\ PlannerRefunds = <<>>

\* The paid planner returned a plan without its required fields, the
\* refund was granted, and the image was then generated and settled.
C26_Witness ==
  /\ PaidPlannerFailed
  /\ chat.plannerOutcome = "missing-fields"
  /\ chat.pc = "done"
  /\ chat.provider = "image"
  /\ chat.status = 200
  /\ chat.grantCalls = 1
  /\ chat.deductCalls = 1
  /\ Len(PlannerRefunds) = 1
  /\ Converted(ImageEntries)

\* ------------------------------------------------------------ SpecBypass
\* logAdminUsageInternal: ctx.db.insert("adminAuditLog", { ...args,
\* createdAt: Date.now() })
logAdminUsageInternal(tLog, args, t) ==
  Append(tLog, [sid |-> args.sid, endpoint |-> args.endpoint,
                modelId |-> args.modelId,
                estimatedCredits |-> args.estimatedCredits,
                estimatedCostUsd |-> args.estimatedCostUsd,
                createdAt |-> t])

\* The routes a metered request can go to: the chat route and the image
\* route, each with the locals of its handler before it runs.
BypassRequests == {NoChat, NoImage}

\* An account as in InitChat after upgradeToAdmin, and one request.
InitBypass ==
  /\ chat \in BypassRequests
  /\ adminAuditLog = <<>>
  /\ \E c \in ChatInitialCredits :
       LET args == [NoArgs EXCEPT !.sid = CHAT_SID, !.generationId = "g0",
                                  !.amount = 1]
           out == deductCreditsInternal(
                    [sid \in SIDS |-> FundedSession(c + 1)],
                    <<LedgerEntry(CHAT_SID, c + 1, "purchase", {}, {})>>, args)
       IN  /\ sessions = [out.sessions EXCEPT ![CHAT_SID].tier = "admin"]
           /\ creditLedger = out.ledger
  /\ now = 2
  /\ ncalls = 0
  /\ last = [op |-> "none", args |-> NoArgs, res |-> NoResult,
             before |-> [sessions |-> sessions, nledger |-> 0, now |-> 2]]

\* if (session.tier !== "admin") { ... } is skipped: no generationId, no
\* reserveCredits, creditReserved stays false; no other call is made.
ChatAdminStart ==
  /\ chat.route = "none"
  /\ chat.pc = "start"
  /\ sessions[CHAT_SID].tier = "admin"
  /\ chat' = [chat EXCEPT !.route = "part_002", !.pc = "reserved",
                          !.balanceBefore = sessions[CHAT_SID].credits]
  /\ NoCall

\* The image route on an admin session: no reservation; the bypass is
\* logged with logAdminUsage(endpoint "generate-image").
ImageAdminStart ==
  /\ chat.route = "image"
  /\ chat.pc = "start"
  /\ sessions[CHAT_SID].tier = "admin"
  /\ \E planner \in PlannerModes, amount \in Amounts :
       /\ chat' = [chat EXCEPT !.isAdmin = TRUE, !.planner = planner,
                               !.balanceBefore = sessions[CHAT_SID].credits,
                               !.pc = IF planner = "disabled"
                                      THEN "generate" ELSE "planner"]
       /\ adminAuditLog' =
            logAdminUsageInternal(adminAuditLog,
              [sid |-> CHAT_SID, endpoint |-> "generate-image",
               modelId |-> "model", estimatedCredits |-> amount,
               estimatedCostUsd |-> CostOfCredits(amount)], now)
  /\ UNCHANGED <<sessions, creditLedger, now, ncalls, last>>

NextBypass ==
  \/ ChatAdminStart \/ ChatEarlyExit \/ ChatStartStream
  \/ UpstreamChunk \/ UpstreamEnd \/ UpstreamError \/ ClientCancel
  \/ StreamClose \/ PumpError
  \/ ImageRejectUnpriced \/ ImageAdminStart
  \/ PlannerSucceeds \/ PlannerFails \/ ProviderSucceeds \/ ProviderFails
  \/ Tick

SpecBypass == InitBypass /\ [][NextBypass]_vars

\* The handler has answered a request that reached the model: the image
\* route returned the image or the provider's failure, the response body
\* of the chat route closed, errored or was cancelled.
BypassRequestEnded ==
  \/ chat.route = "image" /\ chat.pc = "done" /\ chat.status \in {200, 500}
  \/ chat.route = "part_002" /\ chat.output \in {"closed", "errored", "cancelled"}

\* ----------------------------------------------------------------- C27
\* C27: a metered request (chat or image) of an admin session calls no
\* reserve, settle or release, so the account and the ledger stay as they
\* were, and when the request has ended the audit log holds exactly one
\* entry for it.
C27_AdminBypassLogged ==
  /\ ncalls = 0
  /\ last.op = "none"
  /\ BypassRequestEnded => Len(adminAuditLog) = 1

\* Sum of the deltas of a sequence of ledger entries.
SumOfDeltas(entries) == SumSeq([i \in 1..Len(entries) |-> entries[i].delta], 1)

\* The ledger entries recorded for an account.
EntriesOfAccount(sid) == SelectSeq(creditLedger, LAMBDA e : e.sid = sid)

\* ----------------------------------------------------------------- C28
\* C28: after any sequence of grant, reserve, settle and release calls the
\* balance of an account, which createSession opens at 0, equals the sum of
\* the deltas of the ledger entries recorded for it, and every call changes
\* the balance by exactly the net delta of the entries it appends.
C28_BalanceIsLedgerSum ==
  /\ \A sid \in SIDS :
       sessions[sid].credits = SumOfDeltas(EntriesOfAccount(sid))
  /\ last.op # "none"
       => /\ Cur.credits - Pre.credits = SumOfDeltas(Appended)
          /\ \A i \in 1..Len(Appended) : Appended[i].sid = last.args.sid

\* A release that refunded a reservation, after calls of every other kind:
\* the ledger holds a grant, a reservation, a settlement and the refund.
C28_Witness ==
  /\ last.op = "release"
  /\ Reasons(Appended) = <<"refund">>
  /\ Cur.credits > Pre.credits
  /\ \E i \in 1..Len(PreLedger) : PreLedger[i].reason = "generation"
  /\ \E i \in 1..Len(PreLedger) : PreLedger[i].reason = "reservation"

\* The credits granted to an account: the deltas of its entries that carry
\* no generationId.
TotalGranted(sid) ==
  SumOfDeltas(SelectSeq(EntriesOfAccount(sid), LAMBDA e : e.generationId = {}))

\* The credits returned to the account and the credits debited from it
\* under a generationId.
ReturnedFor(g) ==
  SumOfDeltas(SelectSeq(EntriesOf(g), LAMBDA e : e.delta > 0))
DebitedFor(g) ==
  0 - SumOfDeltas(SelectSeq(EntriesOf(g), LAMBDA e : e.delta < 0))

\* ----------------------------------------------------------------- C29
\* C29: after any sequence of reserve, settle, release and grant calls, the
\* same generationId repeated and out of order included, the balance is at
\* most the total of the credits granted to the account, and for every
\* generationId the credits returned are at most the credits debited.
C29_NoDoubleRefund ==
  /\ \A sid \in SIDS : sessions[sid].credits <= TotalGranted(sid)
  /\ \A g \in GENERATION_IDS : ReturnedFor(g) <= DebitedFor(g)

\* -------------------------------------------------------- SpecChatFaulty
\* releaseReservation throws inside releaseReservedCredits: the catch logs
\* the error and returns, so the settlement resolves all the same.
ReleaseThrows ==
  /\ chat.route = "part_002"
  /\ chat.settling = "release"
  /\ chat.creditReserved
  /\ chat' = [chat EXCEPT !.settling = "done",
                          !.creditSettlement = "resolved",
                          !.releaseCalls = @ + 1, !.releaseFailed = TRUE]
  /\ NoCall

\* releaseReservation throws in the catch of onFinish: the inner catch logs
\* the error and onFinish returns.
FinishReleaseThrows ==
  /\ chat.route = "part_003"
  /\ chat.settling = "release"
  /\ chat' = [chat EXCEPT !.settling = "done", !.releaseCalls = @ + 1,
                          !.releaseFailed = TRUE]
  /\ NoCall

\* Both chat routes, with a releaseReservation call that may throw.
NextChatFaulty ==
  \/ NextChat
  \/ NextChatFinish
  \/ ReleaseThrows
  \/ FinishReleaseThrows

SpecChatFaulty == InitChat /\ [][NextChatFaulty]_vars

ChargeCostOf(args) ==
  Opt(IF args.actualCostUsd # {} THEN args.actualCostUsd ELSE args.costUsd, 0)

\* A settle directly follows the successful first reserve of the same
\* generationId on the same account, within one UTC day, passes its actual
\* cost and charges in full (no shortfall).
SettleFollowsReserve ==
  /\ last.op = "reserve"
  /\ last.res.success
  /\ ~last.res.alreadyReserved
  /\ PreEntries = <<>>
  /\ last'.op = "settle"
  /\ last'.args.sid = last.args.sid
  /\ last'.args.generationId = last.args.generationId
  /\ last'.args.actualCostUsd \cup last'.args.costUsd # {}
  /\ getUtcDayStart(now') = getUtcDayStart(last.before.now)
  /\ last'.res.success
  /\ last'.res.shortfall = {}

\* ----------------------------------------------------------------- C31
\* C31: reserve with estimated cost c followed by settle with actual cost
\* c' for the same generationId, in the same UTC day and without shortfall,
\* leaves dailySpend at its value before the reserve plus c'.
C31_SettleReconcilesDailySpend ==
  [][SettleFollowsReserve
       => Opt(sessions'[last.args.sid].dailySpendUsd, 0)
            = SpendOn(Pre, last.before.now) + ChargeCostOf(last'.args)]_vars

\* const limit = session.dailySpendLimitUsd ?? DEFAULT_DAILY_SPEND_LIMIT_USD
LimitOf(session) == Opt(session.dailySpendLimitUsd, DEFAULT_DAILY_SPEND_LIMIT_USD)

\* ----------------------------------------------------------------- C32
\* C32: across every sequence of reserve, settle and release calls, the
\* dailySpend of a paid account, counted for the running UTC day, never
\* exceeds its daily limit.
C32_DailySpendWithinLimit ==
  \A sid \in DOMAIN sessions :
    sessions[sid].tier # "admin"
      => SpendOn(sessions[sid], now) <= LimitOf(sessions[sid])

\* ------------------------------------------------------------ SpecWindow
\* The account of InitGate, whose reservation on "g0" was made in the UTC
\* day that starts at now = 2; calls on "g0" and "g1" and the clock.
WINDOW_IDS == {"g0", "g1"}

ReserveWindow == ncalls < MaxCalls /\ ReserveOn({"g1"})
ReleaseWindow == ncalls < MaxCalls /\ ReleaseOn(WINDOW_IDS)
SettleWindow == ncalls < MaxCalls /\ SettleOn(WINDOW_IDS)

NextWindow == ReserveWindow \/ ReleaseWindow \/ SettleWindow \/ Tick

SpecWindow == InitGate /\ [][NextWindow]_vars

\* ----------------------------------------------------------------- C33
\* C33: dailySpend holds the cost recorded in the running UTC day: to
\* release or to settle a reservation that was made in an earlier UTC day
\* does not reduce the dailySpend accumulated in the running day.
C33_EarlierDayLeavesWindow ==
  [][(last'.op \in {"release", "settle"} /\ ncalls' = ncalls + 1
        /\ last'.args.generationId = "g0" /\ getUtcDayStart(now') > 2)
       => SpendOn(sessions'[CHAT_SID], now') >= SpendOn(sessions[CHAT_SID], now)]_vars

\* --------------------------------------------------------------- SpecTwo
\* Two accounts whose requests carry the same generationId.
TWO_SIDS == {"s1", "s2"}

\* (amount, actualAmount) pairs passed to deductCredits by the two accounts:
\* the reserved amount alone, less than it and more than it
TwoSettleInputs == {<<1, {}>>, <<2, {1}>>, <<1, {2}>>}

InitTwo ==
  /\ chat = NoChat
  /\ adminAuditLog = <<>>
  /\ \E c \in InitialCredits :
       /\ sessions = [sid \in TWO_SIDS |-> FundedSession(c)]
       /\ creditLedger = <<LedgerEntry("s1", c, "purchase", {}, {}),
                           LedgerEntry("s2", c, "purchase", {}, {})>>
  /\ now = 2
  /\ ncalls = 0
  /\ last = [op |-> "none", args |-> NoArgs, res |-> NoResult,
             before |-> [sessions |-> sessions, nledger |-> 0, now |-> 2]]

ReserveTwo ==
  /\ ncalls < MaxCalls
  /\ \E sid \in TWO_SIDS, amount \in Amounts, c \in CostInputs :
       LET args == [NoArgs EXCEPT !.sid = sid, !.generationId = "g1",
                                  !.amount = amount, !.costUsd = c]
       IN Call("reserve", args,
               reserveCreditsInternal(sessions, creditLedger, args, now))

ReleaseTwo ==
  /\ ncalls < MaxCalls
  /\ \E sid \in TWO_SIDS :
       LET args == [NoArgs EXCEPT !.sid = sid, !.generationId = "g1"]
       IN Call("release", args,
               releaseReservationInternal(sessions, creditLedger, args))

SettleTwo ==
  /\ ncalls < MaxCalls
  /\ \E sid \in TWO_SIDS, a \in TwoSettleInputs, c \in SettleCostInputs :
       LET args == [NoArgs EXCEPT !.sid = sid, !.generationId = "g1",
                                  !.amount = a[1], !.actualAmount = a[2],
                                  !.costUsd = c[1], !.actualCostUsd = c[2]]
       IN Call("settle", args,
               deductCreditsInternal(sessions, creditLedger, args))

GrantTwo ==
  /\ ncalls < MaxCalls
  /\ \E sid \in TWO_SIDS, amount \in GrantAmounts :
       LET args == [NoArgs EXCEPT !.sid = sid, !.amount = amount,
                                  !.reason = "purchase"]
       IN Call("grant", args,
               addCreditsInternal(sessions, creditLedger, args))

NextTwo == ReserveTwo \/ ReleaseTwo \/ SettleTwo \/ GrantTwo

SpecTwo == InitTwo /\ [][NextTwo]_vars

\* The last call run again on the tables as they were before it, with the
\* ledger entries of every other account taken away.
OwnLedger == SelectSeq(PreLedger, LAMBDA e : e.sid = last.args.sid)
AloneOutcome ==
  CASE last.op = "reserve" ->
         reserveCreditsInternal(last.before.sessions, OwnLedger, last.args,
                                last.before.now)
    [] last.op = "release" ->
         releaseReservationInternal(last.before.sessions, OwnLedger, last.args)
    [] last.op = "settle" ->
         deductCreditsInternal(last.before.sessions, OwnLedger, last.args)
    [] last.op = "grant" ->
         addCreditsInternal(last.before.sessions, OwnLedger, last.args)

\* ----------------------------------------------------------------- C34
\* C34: a ledger call on account X changes only X's session and appends
\* only entries of X, and the idempotency lookup is scoped to
\* (generationId, account): the call returns, charges, refunds and appends
\* exactly what it would with no entry of any other account in the ledger,
\* even when another account has entries under the same generationId.
C34_ScopedToAccount ==
  last.op # "none"
    => /\ \A sid \in TWO_SIDS \ {last.args.sid} :
            sessions[sid] = last.before.sessions[sid]
       /\ \A i \in 1..Len(Appended) : Appended[i].sid = last.args.sid
       /\ last.res = AloneOutcome.res
       /\ Cur = AloneOutcome.sessions[last.args.sid]
       /\ Appended = SubSeq(AloneOutcome.ledger, Len(OwnLedger) + 1,
                            Len(AloneOutcome.ledger))

\* Account s1 reserves under "g1" while account s2 already holds a
\* reservation under "g1": the reserve is not taken for a repeat.
C34_Witness ==
  /\ last.op = "reserve"
  /\ last.args.sid = "s1"
  /\ last.res.success
  /\ ~last.res.alreadyReserved
  /\ Reasons(Appended) = <<"reservation">>
  /\ Cur.credits = Pre.credits - last.args.amount
  /\ \E i \in 1..Len(PreLedger) :
       /\ PreLedger[i].sid = "s2"
       /\ PreLedger[i].generationId = {"g1"}
       /\ PreLedger[i].reason = "reservation"

====
